---------------------------- MODULE Spec2Model ----------------------------
(***************************************************************************)
(* Route search of pss-backend: the deviation score of a route against a   *)
(* rider's search (internal/route/calculations.go) and the Search service  *)
(* that filters and ranks the open routes of the database                  *)
(* (internal/route/route.go).                                              *)
(*                                                                         *)
(* Numbers.  Coordinates are integers counted in half degrees and every    *)
(* point lies on one meridian (Lng = Meridian).  On a meridian the         *)
(* haversine formula reduces to the arc |lat2 - lat1|, so distances are    *)
(* integers counted in half-degree arcs (about 55.6 km each).  Stored      *)
(* coordinates (routes, stops) are whole degrees, i.e. even, so that the   *)
(* midpoint (a + b) / 2 of two of them is exact; via-points may be odd.    *)
(* Floating-point rounding is not modelled.                                *)
(***************************************************************************)
EXTENDS Integers, Sequences, FiniteSets, TLC

VARIABLES
    \* the database (tables routes, route_stops, participants)
    routes, route_stops, participants,
    \* the last call of Search: its input, the routes and the error returned,
    \* the candidates it passed to CalculateDeviation with their scores, and
    \* the database failure that was to meet its queries
    searchIn, searchOut, searchErr, searchScored, searchFault,
    \* one activation of allInterleavings(groups, max)
    groups, max, result, indices, current, stack, pc,
    \* one direct call of a scoring function on (route, search)
    route, search, called, ret,
    \* scoring tasks: the saved activation of every task, the task that is
    \* executing (0 for none), and the scores collected so far
    tasks, running, collected,
    \* the HTTP server: whether it has been built, the TRUSTED_PROXY_CIDRS it
    \* was configured with, what ParseTrustedProxyCIDRs returned for it, the
    \* networks given to RealIPWith, and the last request with the real IP
    \* the middleware put in its context
    started, trustedProxyCIDRs, parsed, trustedProxyNetworks, request, realIP

dbVars     == <<routes, route_stops, participants>>
searchVars == <<searchIn, searchOut, searchErr, searchScored, searchFault>>
enumVars   == <<groups, max, result, indices, current, stack, pc>>
callVars   == <<route, search, called, ret>>
taskVars   == <<tasks, running, collected>>
httpVars   == <<started, trustedProxyCIDRs, parsed, trustedProxyNetworks, request, realIP>>
vars       == <<dbVars, searchVars, enumVars, callVars, taskVars, httpVars>>

---------------------------------------------------------------------------
\* Bounds of the model

\* stops of a route in a direct call of a scoring function
MaxStops == 3
\* applications (contributors other than the creator) owning stops
MaxApps == 2
\* via-points of a search input
MaxVia == 2
\* stops of a route with many contributors
ManyStops == 6
\* groups, and stops of one group, in a direct call of allInterleavings
MaxGroups == 3
MaxGroupLen == 2
\* the cap in a direct call of allInterleavings
MaxCap == 7
\* rows of table routes
MaxRoutes == 3
\* live rows of table participants for one route
MaxParticipants == 2

---------------------------------------------------------------------------
\* Values

\* a nil *uuid.UUID in Stop.ApplicationID: the stop is the creator's
NilApplication == 0

\* the longitude shared by every point of the model
Meridian == 0

\* math.MaxFloat64, the start value of the running minima: a number above
\* every distance the model can produce
MaxFloat64 == 1000000

\* math.Pi radians (180 degrees) in half degrees
HalfTurn == 360

\* the NaN of float64, which no comparison holds of and every sum keeps
NaN == -1

\* const maxInterleavings
maxInterleavings == 500

\* uuid.UUID.String(): the canonical 36-character form, one per uuid, and
\* never the word "creator"
UUIDString(u) ==
    <<"00000000-0000-4000-8000-000000000001",
      "00000000-0000-4000-8000-000000000002",
      "00000000-0000-4000-8000-000000000003",
      "00000000-0000-4000-8000-000000000004",
      "00000000-0000-4000-8000-000000000005",
      "00000000-0000-4000-8000-000000000006",
      "00000000-0000-4000-8000-000000000007",
      "00000000-0000-4000-8000-000000000008">>[u]

Abs(x) == IF x < 0 THEN -x ELSE x

\* the integer part of the square root of n
ISqrt(n) == CHOOSE k \in 0..n : k * k <= n /\ (k + 1) * (k + 1) > n

\* the points with lat = lng within 6 degrees of (0, 0)
Diagonal == 0..12

\* x + y, x < y of float64
Plus(x, y) == IF x = NaN \/ y = NaN THEN NaN ELSE x + y

Less(x, y) == x # NaN /\ y # NaN /\ x < y

\* x <= y of float64
LessEq(x, y) == x # NaN /\ y # NaN /\ x <= y

\* the latitudes up to 10 degrees, in half degrees, at which float64
\* arithmetic gives a = 1.0000000000000002 for the point (lat, lng) and
\* its antipode (-lat, lng +- 180 degrees), whatever lng: 1.5, 2.5, 3.5,
\* 5.5, 6, 7 and 10 degrees.  At the other latitudes a is 1 or
\* 0.9999999999999999.
AboveOne == {3, 5, 7, 11, 12, 14, 20}

---------------------------------------------------------------------------
\* internal/route/calculations.go

\* the arc of an angle d, 0 <= d <= 2 pi, as 2 atan2(|sin (d/2)|, |cos (d/2)|)
\* gives it: d itself up to a half turn, and the rest of the full turn beyond
FoldArc(d) == IF d <= HalfTurn THEN d ELSE 2 * HalfTurn - d

\* Haversine with the arc taken with its sign (the half-angle's tangent
\* instead of the two square roots)
HaversineSignedArc(lat1, lng1, lat2, lng2) ==
    CASE lng1 = lng2 -> lat2 - lat1
      [] lat1 = 0 /\ lat2 = 0 ->
            IF lng2 - lng1 >= 0 THEN FoldArc(lng2 - lng1) ELSE -FoldArc(lng1 - lng2)
      [] 2 * Abs(lat1) = HalfTurn \/ 2 * Abs(lat2) = HalfTurn -> lat2 - lat1

\* Haversine with the arguments of Atan2 the other way round
HaversineAtan2Swapped(lat1, lng1, lat2, lng2) ==
    CASE lng1 = lng2 -> HalfTurn - Abs(lat2 - lat1)
      [] lat1 = 0 /\ lat2 = 0 -> HalfTurn - FoldArc(Abs(lng2 - lng1))
      [] 2 * Abs(lat1) = HalfTurn \/ 2 * Abs(lat2) = HalfTurn ->
            HalfTurn - Abs(lat2 - lat1)

\* Haversine, on the pairs of points for which the formula has a closed
\* form, c = 2 atan2(sqrt a, sqrt (1-a)) being the distance in arc units:
\*  - two points of one meridian: dLng = 0, a = sin^2(dLat/2), c = |dLat|;
\*  - two points of the equator: a = sin^2(dLng/2), c = |dLng| folded into
\*    a half turn;
\*  - a pole and any point: the cosine of the pole's latitude is 0, so
\*    a = sin^2(dLat/2) whatever the longitudes, c = |dLat|;
\*  - two points of opposite meridians: |dLng| is a half turn, so
\*    a = sin^2(dLat/2) + cos lat1 cos lat2 = cos^2((lat1 + lat2)/2) and
\*    c is a half turn less |lat1 + lat2|, the way over the pole;
\*  - a point within 10 degrees of the equator and its antipode, where a
\*    is 1 but for rounding: a half turn, or, when a comes out above 1, NaN
\*    (math.Sqrt(1-a) of a negative number is NaN, and so is math.Atan2 of
\*    it).
\* And, without a closed form, on two distinct points of the diagonal
\* lat = lng near (0, 0), where dLng = dLat = d: the distance in whole arc
\* units, which there is the integer part of d sqrt 2 (the cosines of the
\* latitudes, above 0.99, do not move it across an integer).
Haversine(lat1, lng1, lat2, lng2) ==
    CASE lng1 = lng2 -> Abs(lat2 - lat1)
      [] lat1 = 0 /\ lat2 = 0 -> FoldArc(Abs(lng2 - lng1))
      [] 2 * Abs(lat1) = HalfTurn \/ 2 * Abs(lat2) = HalfTurn -> Abs(lat2 - lat1)
      [] lat1 = lng1 /\ lat2 = lng2 /\ lat1 \in Diagonal /\ lat2 \in Diagonal ->
            ISqrt(2 * (lat2 - lat1) * (lat2 - lat1))
      [] Abs(lng2 - lng1) = HalfTurn /\ lat1 + lat2 # 0 -> HalfTurn - Abs(lat1 + lat2)
      [] Abs(lng2 - lng1) = HalfTurn /\ lat1 + lat2 = 0 /\ Abs(lat1) \in 1..20 ->
            IF Abs(lat1) \in AboveOne THEN NaN ELSE HalfTurn

\* the loop of minDistanceToSegment without its comparison (`min = d` at
\* every midpoint)
RECURSIVE minDistanceLoopKeepsLast(_, _, _, _, _)
minDistanceLoopKeepsLast(lat, lng, segments, i, min) ==
    IF i > Len(segments) THEN min
    ELSE minDistanceLoopKeepsLast(lat, lng, segments, i + 1,
             Haversine(lat, lng, segments[i][1], segments[i][2]))

\* minDistanceToSegment: the running minimum over the segment midpoints,
\* started at math.MaxFloat64.
RECURSIVE minDistanceLoop(_, _, _, _, _)
minDistanceLoop(lat, lng, segments, i, min) ==
    IF i > Len(segments) THEN min
    ELSE LET d == Haversine(lat, lng, segments[i][1], segments[i][2])
         IN  minDistanceLoop(lat, lng, segments, i + 1, IF Less(d, min) THEN d ELSE min)

minDistanceToSegment(lat, lng, segments) ==
    minDistanceLoop(lat, lng, segments, 1, MaxFloat64)

\* the loop of buildSegmentsFromStops without the update of prevLat,
\* prevLng (line 131): every leg is taken from the start
RECURSIVE buildSegmentsLoopKeepsPrev(_, _, _, _, _, _, _)
buildSegmentsLoopKeepsPrev(prevLat, prevLng, endLat, endLng, stops, i, segs) ==
    IF i > Len(stops)
    THEN Append(segs, <<(prevLat + endLat) \div 2, (prevLng + endLng) \div 2>>)
    ELSE buildSegmentsLoopKeepsPrev(prevLat, prevLng, endLat, endLng, stops, i + 1,
             Append(segs, <<(prevLat + stops[i].Lat) \div 2,
                            (prevLng + stops[i].Lng) \div 2>>))

\* buildSegmentsFromStops: one midpoint per leg of start, stops..., end.
RECURSIVE buildSegmentsLoop(_, _, _, _, _, _, _)
buildSegmentsLoop(prevLat, prevLng, endLat, endLng, stops, i, segs) ==
    IF i > Len(stops)
    THEN Append(segs, <<(prevLat + endLat) \div 2, (prevLng + endLng) \div 2>>)
    ELSE buildSegmentsLoop(stops[i].Lat, stops[i].Lng, endLat, endLng, stops, i + 1,
             Append(segs, <<(prevLat + stops[i].Lat) \div 2,
                            (prevLng + stops[i].Lng) \div 2>>))

buildSegmentsFromStops(startLat, startLng, endLat, endLng, stops) ==
    IF Len(stops) = 0
    THEN << <<(startLat + endLat) \div 2, (startLng + endLng) \div 2>> >>
    ELSE buildSegmentsLoop(startLat, startLng, endLat, endLng, stops, 1, <<>>)

\* the loop of deviationForStops with `dev =` for `dev +=`
RECURSIVE deviationLoopAssigns(_, _, _, _)
deviationLoopAssigns(segments, us, i, dev) ==
    IF i > Len(us) THEN dev
    ELSE deviationLoopAssigns(segments, us, i + 1,
             minDistanceToSegment(us[i].Lat, us[i].Lng, segments))

\* the loop of deviationForStops with `dev -=` for `dev +=`
RECURSIVE deviationLoopSubtracts(_, _, _, _)
deviationLoopSubtracts(segments, us, i, dev) ==
    IF i > Len(us) THEN dev
    ELSE deviationLoopSubtracts(segments, us, i + 1,
             dev - minDistanceToSegment(us[i].Lat, us[i].Lng, segments))

\* deviationForStops: the sum over the search's via-points of the minimum
\* distance to a segment midpoint.
RECURSIVE deviationLoop(_, _, _, _)
deviationLoop(segments, us, i, dev) ==
    IF i > Len(us) THEN dev
    ELSE deviationLoop(segments, us, i + 1,
             dev + minDistanceToSegment(us[i].Lat, us[i].Lng, segments))

deviationForStops(startLat, startLng, endLat, endLng, stops, srch) ==
    LET segments == buildSegmentsFromStops(startLat, startLng, endLat, endLng, stops)
    IN  deviationLoop(segments, srch.Stops, 1, 0)

\* the grouping key of a stop: "creator", or the application id as a string
stopKey(s) ==
    IF s.ApplicationID # NilApplication
    THEN [appID |-> UUIDString(s.ApplicationID)]
    ELSE [appID |-> "creator"]

\* the loop of groupStopsByParticipant without `seen[k] = idx`
RECURSIVE groupStopsLoopForgetsSeen(_, _, _, _)
groupStopsLoopForgetsSeen(stops, i, ordered, seen) ==
    IF i > Len(stops) THEN ordered
    ELSE LET s   == stops[i]
             k   == stopKey(s)
             ok  == k \in DOMAIN seen
             idx == IF ok THEN seen[k] ELSE Len(ordered) + 1
             ord == IF ok THEN ordered ELSE Append(ordered, <<>>)
         IN  groupStopsLoopForgetsSeen(stops, i + 1,
                                       [ord EXCEPT ![idx] = Append(@, s)], seen)

\* the loop of groupStopsByParticipant putting a stop at the front of its
\* group instead of appending it
RECURSIVE groupStopsLoopPrepends(_, _, _, _)
groupStopsLoopPrepends(stops, i, ordered, seen) ==
    IF i > Len(stops) THEN ordered
    ELSE LET s   == stops[i]
             k   == stopKey(s)
             ok  == k \in DOMAIN seen
             idx == IF ok THEN seen[k] ELSE Len(ordered) + 1
             ord == IF ok THEN ordered ELSE Append(ordered, <<>>)
             sn  == IF ok THEN seen ELSE (k :> idx) @@ seen
         IN  groupStopsLoopPrepends(stops, i + 1,
                                    [ord EXCEPT ![idx] = <<s>> \o @], sn)

\* groupStopsByParticipant: `seen` maps a key to the index of its group in
\* `ordered` (indices count from 1 here).
RECURSIVE groupStopsLoop(_, _, _, _)
groupStopsLoop(stops, i, ordered, seen) ==
    IF i > Len(stops) THEN ordered
    ELSE LET s   == stops[i]
             k   == stopKey(s)
             ok  == k \in DOMAIN seen
             idx == IF ok THEN seen[k] ELSE Len(ordered) + 1
             ord == IF ok THEN ordered ELSE Append(ordered, <<>>)
             sn  == IF ok THEN seen ELSE (k :> idx) @@ seen
         IN  groupStopsLoop(stops, i + 1, [ord EXCEPT ![idx] = Append(@, s)], sn)

groupStopsByParticipant(stops) ==
    groupStopsLoop(stops, 1, <<>>, <<>>)

RECURSIVE totalLenLoop(_, _, _)
totalLenLoop(gs, g, n) ==
    IF g > Len(gs) THEN n ELSE totalLenLoop(gs, g + 1, n + Len(gs[g]))

totalLen(gs) == totalLenLoop(gs, 1, 0)

\* the `done` test of gen: no group has an unconsumed stop
genDone(gs, idx) ==
    \A g \in 1..Len(gs) : ~(idx[g] < Len(gs[g]))

\* gen, as a function of the variables it closes over (res = result,
\* idx = indices, cur = current); it returns the new value of result.
\* indices and current are passed by value, which is what the undo after
\* each recursive call restores.  In genLoop the recursive call has returned
\* (its result is there, with its length) before the loop goes on.
RECURSIVE gen(_, _, _, _, _)
RECURSIVE genLoop(_, _, _, _, _, _)
gen(gs, mx, res, idx, cur) ==
    IF Len(res) >= mx THEN res
    ELSE IF genDone(gs, idx) THEN Append(res, cur)
    ELSE genLoop(gs, mx, res, idx, cur, 1)

genLoop(gs, mx, res, idx, cur, g) ==
    IF g > Len(gs) THEN res
    ELSE IF idx[g] < Len(gs[g])
    THEN LET returned == gen(gs, mx, res, [idx EXCEPT ![g] = @ + 1],
                             Append(cur, gs[g][idx[g] + 1]))
         IN  IF Len(returned) >= Len(res)
             THEN genLoop(gs, mx, returned, idx, cur, g + 1)
             ELSE returned
    ELSE genLoop(gs, mx, res, idx, cur, g + 1)

\* allInterleavings(groups, max)
allInterleavings(gs, mx) ==
    IF Len(gs) = 0 THEN <<>>
    ELSE IF Len(gs) = 1 THEN <<gs[1]>>
    ELSE gen(gs, mx, <<>>, [g \in 1..Len(gs) |-> 0], <<>>)

\* the loop of CalculateDeviation without its comparison: the deviation of
\* the first ordering
minStopDevFirstOnly(r, srch, orderings) ==
    IF Len(orderings) = 0 THEN MaxFloat64
    ELSE deviationForStops(r.StartLat, r.StartLng, r.EndLat, r.EndLng, orderings[1], srch)

\* the loop of CalculateDeviation over the orderings: the running minimum
\* of deviationForStops, started at math.MaxFloat64 (the least element of
\* the values met, which is what the loop's `d < minStopDev` update leaves)
minStopDevLoop(r, srch, orderings) ==
    LET ds == { deviationForStops(r.StartLat, r.StartLng, r.EndLat, r.EndLng,
                                  orderings[i], srch) : i \in 1..Len(orderings) }
              \cup {MaxFloat64}
    IN  CHOOSE m \in ds : \A d \in ds : m <= d

\* scoreOrderings with baseDev taken from the start points alone
scoreOrderingsStartOnly(r, srch, orderings) ==
    LET baseDev == Haversine(srch.StartLat, srch.StartLng, r.StartLat, r.StartLng)
    IN  IF Len(orderings) = 0
        THEN baseDev + deviationForStops(r.StartLat, r.StartLng, r.EndLat, r.EndLng,
                                         r.Stops, srch)
        ELSE baseDev + minStopDevLoop(r, srch, orderings)

\* scoreOrderings without the `len(orderings) == 0` case (lines 27-29)
scoreOrderingsNoEmptyCase(r, srch, orderings) ==
    LET baseDev == Haversine(srch.StartLat, srch.StartLng, r.StartLat, r.StartLng)
                   + Haversine(srch.EndLat, srch.EndLng, r.EndLat, r.EndLng)
    IN  baseDev + minStopDevLoop(r, srch, orderings)

\* lines 21-22 and 27-38 of CalculateDeviation: the score, given the orderings
scoreOrderings(r, srch, orderings) ==
    LET baseDev == Plus(Haversine(srch.StartLat, srch.StartLng, r.StartLat, r.StartLng),
                        Haversine(srch.EndLat, srch.EndLng, r.EndLat, r.EndLng))
    IN  IF Len(orderings) = 0
        THEN Plus(baseDev, deviationForStops(r.StartLat, r.StartLng, r.EndLat, r.EndLng,
                                             r.Stops, srch))
        ELSE Plus(baseDev, minStopDevLoop(r, srch, orderings))

\* CalculateDeviation(route, search)
CalculateDeviation(r, srch) ==
    scoreOrderings(r, srch,
                   allInterleavings(groupStopsByParticipant(r.Stops), maxInterleavings))

---------------------------------------------------------------------------
\* Values of the test fixtures and of the database

\* latitudes of route starts, route ends, stops and via-points
RouteStartLats  == {0}
RouteEndLats    == {8}
StopLats        == {2, 6}
\* the start and end latitudes of a search input
SearchEndpoints == { <<0, 8>>, <<2, 6>> }
ViaLats == {3, 5}

\* a Stop as fetchRouteStops builds it: ID, ApplicationID (NilApplication
\* for the creator), Position, Lat, Lng, Status
MkStop(id, app, pos, lat) ==
    [ID |-> id, ApplicationID |-> app, Position |-> pos,
     Lat |-> lat, Lng |-> Meridian, Status |-> "approved"]

\* the stop lists of n stops: position order, any contributor, any latitude
StopLists(n) ==
    { [i \in 1..n |-> MkStop(i, f[i][1], i - 1, f[i][2])] :
        f \in [1..n -> (0..MaxApps) \X StopLats] }

\* stop lists of ManyStops stops dealt round-robin to m contributors (the
\* creator first), all at the first stop latitude except the k-th, k being
\* the first or the last stop
ManyStopLists ==
    { [i \in 1..ManyStops |->
          MkStop(i, (i - 1) % m, i - 1, IF i = k THEN 6 ELSE 2)] :
        m \in 1..ManyStops, k \in {1, ManyStops} }

\* a Route as fetchSearchableRoutes builds it
MkRoute(id, startLat, endLat, maxPassengers, maxDeviation, available, stops) ==
    [ID |-> id, StartLat |-> startLat, StartLng |-> Meridian,
     EndLat |-> endLat, EndLng |-> Meridian,
     MaxPassengers |-> maxPassengers, MaxDeviation |-> maxDeviation,
     AvailablePassengers |-> available, Stops |-> stops]

CallRoutes ==
    { MkRoute(1, s, e, 1, 0, 1, st) :
        s \in RouteStartLats, e \in RouteEndLats,
        st \in UNION { StopLists(n) : n \in 0..MaxStops } }

ManyRoutes ==
    { MkRoute(1, 0, 8, 1, 0, 1, st) : st \in ManyStopLists }

\* routes of at most one stop
FewRoutes ==
    { MkRoute(1, 0, 8, 1, 0, 1, st) : st \in StopLists(0) \cup StopLists(1) }

MkVia(v) == [Lat |-> v, Lng |-> Meridian]

ViaLists ==
    UNION { [1..n -> { MkVia(v) : v \in ViaLats }] : n \in 0..MaxVia }

MkSearch(startLat, endLat, via) ==
    [StartLat |-> startLat, StartLng |-> Meridian,
     EndLat |-> endLat, EndLng |-> Meridian, Stops |-> via]

SearchInputs ==
    { MkSearch(e[1], e[2], v) : e \in SearchEndpoints, v \in ViaLists }

ManySearches ==
    { MkSearch(0, 8, <<MkVia(3)>>), MkSearch(2, 8, <<MkVia(5), MkVia(3)>>),
      MkSearch(0, 6, <<>>) }

NoRoute  == MkRoute(0, 0, 0, 0, 0, 0, <<>>)

\* where a database call of fetchSearchableRoutes returns an error: nowhere,
\* at the query (QueryContext), at the scan of the row-th row of routes, in
\* fetchRouteStops for that row, or at the end of the rows (rows.Err)
NoFault == [at |-> "none", row |-> 0]

\* no failure, or the failure of the query
QueryFaults == { NoFault, [at |-> "query", row |-> 0] }

Faults(n) ==
    QueryFaults \cup { [at |-> "rows", row |-> 0] }
    \cup { [at |-> a, row |-> i] : a \in {"scan", "stops"}, i \in 1..n }
NoSearch == MkSearch(0, 0, <<>>)

RECURSIVE SumTo(_, _)
SumTo(f, n) == IF n = 0 THEN 0 ELSE f[n] + SumTo(f, n - 1)

\* the groups of sizes f[1], ..., f[k]: pairwise distinct stops, group g
\* being contributor g - 1
GroupsOfSizes(f, k) ==
    [g \in 1..k |-> [i \in 1..f[g] |->
        MkStop(SumTo(f, g - 1) + i, g - 1, SumTo(f, g - 1) + i - 1, 2)]]

EnumGroups ==
    UNION { { GroupsOfSizes(f, k) : f \in [1..k -> 0..MaxGroupLen] } : k \in 0..MaxGroups }

---------------------------------------------------------------------------
\* Initial values of the parts of the state

InitDB ==
    /\ routes = <<>>
    /\ route_stops = {}
    /\ participants = <<>>

InitSearch ==
    /\ searchIn = NoSearch
    /\ searchOut = <<>>
    /\ searchErr = FALSE
    /\ searchScored = <<>>
    /\ searchFault = NoFault

InitEnum ==
    /\ groups = <<>>
    /\ max = 0
    /\ result = <<>>
    /\ indices = <<>>
    /\ current = <<>>
    /\ stack = <<>>
    /\ pc = "idle"

InitTasks ==
    /\ tasks = <<>>
    /\ running = 0
    /\ collected = <<>>

\* a request that has not been received: no remote address, no headers
NoRequest == [RemoteAddr |-> "", XRealIP |-> <<>>, XForwardedFor |-> <<>>]

InitHTTP ==
    /\ started = FALSE
    /\ trustedProxyCIDRs = <<>>
    /\ parsed = [networks |-> <<>>, err |-> FALSE]
    /\ trustedProxyNetworks = <<>>
    /\ request = NoRequest
    /\ realIP = <<>>

InitCall ==
    /\ route = NoRoute
    /\ search = NoSearch
    /\ called = "none"
    /\ ret = 0

---------------------------------------------------------------------------
\* allInterleavings, step by step.  pc is the position of the activation:
\* "call" (at the head of allInterleavings), "gen" (at the head of gen),
\* "loop" (at the head of the second loop of gen), "ret" (gen has just
\* returned), "done" (allInterleavings has returned result).  stack holds,
\* for every activation of gen that is inside its second loop, the loop
\* variable g (counted from 1); indices are counted from 0 as in the code.

\* AllInterleavingsCall without the shortcut for a single group
AllInterleavingsCallNoSingle ==
    /\ pc = "call"
    /\ IF Len(groups) = 0
       THEN /\ result' = <<>>
            /\ pc' = "done"
            /\ UNCHANGED <<indices, current, stack>>
       ELSE /\ result' = <<>>
            /\ indices' = [g \in 1..Len(groups) |-> 0]
            /\ current' = <<>>
            /\ stack' = <<>>
            /\ pc' = "gen"
    /\ UNCHANGED <<groups, max, dbVars, taskVars, httpVars, searchVars, callVars>>

\* lines 65-75 and 102: the two shortcuts, or the first call of gen
AllInterleavingsCall ==
    /\ pc = "call"
    /\ IF Len(groups) = 0
       THEN /\ result' = <<>>
            /\ pc' = "done"
            /\ UNCHANGED <<indices, current, stack>>
       ELSE IF Len(groups) = 1
       THEN /\ result' = <<groups[1]>>
            /\ pc' = "done"
            /\ UNCHANGED <<indices, current, stack>>
       ELSE /\ result' = <<>>
            /\ indices' = [g \in 1..Len(groups) |-> 0]
            /\ current' = <<>>
            /\ stack' = <<>>
            /\ pc' = "gen"
    /\ UNCHANGED <<groups, max, dbVars, taskVars, httpVars, searchVars, callVars>>

\* GenEnter with the cap test off by one (`>` for `>=`)
GenEnterOffByOne ==
    /\ pc = "gen"
    /\ IF Len(result) > max
       THEN /\ pc' = "ret"
            /\ UNCHANGED <<result, stack>>
       ELSE IF genDone(groups, indices)
       THEN /\ result' = Append(result, current)
            /\ pc' = "ret"
            /\ UNCHANGED stack
       ELSE /\ stack' = Append(stack, 1)
            /\ pc' = "loop"
            /\ UNCHANGED result
    /\ UNCHANGED <<groups, max, indices, current, dbVars, taskVars, httpVars, searchVars, callVars>>

\* GenEnter with another cap policy: enumeration goes on past the cap and
\* each further ordering pushes out the oldest one
GenEnterKeepsLatest ==
    /\ pc = "gen"
    /\ IF genDone(groups, indices)
       THEN /\ result' = IF max = 0 THEN result
                         ELSE IF Len(result) >= max
                         THEN Append(Tail(result), current)
                         ELSE Append(result, current)
            /\ pc' = "ret"
            /\ UNCHANGED stack
       ELSE /\ stack' = Append(stack, 1)
            /\ pc' = "loop"
            /\ UNCHANGED result
    /\ UNCHANGED <<groups, max, indices, current, dbVars, taskVars, httpVars, searchVars, callVars>>

\* lines 78-91: the cap test, the `done` test, or entry to the second loop
GenEnter ==
    /\ pc = "gen"
    /\ IF Len(result) >= max
       THEN /\ pc' = "ret"
            /\ UNCHANGED <<result, stack>>
       ELSE IF genDone(groups, indices)
       THEN /\ result' = Append(result, current)
            /\ pc' = "ret"
            /\ UNCHANGED stack
       ELSE /\ stack' = Append(stack, 1)
            /\ pc' = "loop"
            /\ UNCHANGED result
    /\ UNCHANGED <<groups, max, indices, current, dbVars, taskVars, httpVars, searchVars, callVars>>

\* GenLoop without the append to current (line 94 left out)
GenLoopNoAppend ==
    /\ pc = "loop"
    /\ LET g == stack[Len(stack)]
       IN  IF g > Len(groups)
           THEN /\ stack' = SubSeq(stack, 1, Len(stack) - 1)
                /\ pc' = "ret"
                /\ UNCHANGED <<indices, current>>
           ELSE IF indices[g] < Len(groups[g])
           THEN /\ current' = current
                /\ indices' = [indices EXCEPT ![g] = @ + 1]
                /\ pc' = "gen"
                /\ UNCHANGED stack
           ELSE /\ stack' = [stack EXCEPT ![Len(stack)] = g + 1]
                /\ pc' = "loop"
                /\ UNCHANGED <<indices, current>>
    /\ UNCHANGED <<groups, max, result, dbVars, taskVars, httpVars, searchVars, callVars>>

\* lines 92-96: one iteration of `for g := range groups`, up to the call
GenLoop ==
    /\ pc = "loop"
    /\ LET g == stack[Len(stack)]
       IN  IF g > Len(groups)
           THEN /\ stack' = SubSeq(stack, 1, Len(stack) - 1)
                /\ pc' = "ret"
                /\ UNCHANGED <<indices, current>>
           ELSE IF indices[g] < Len(groups[g])
           THEN /\ current' = Append(current, groups[g][indices[g] + 1])
                /\ indices' = [indices EXCEPT ![g] = @ + 1]
                /\ pc' = "gen"
                /\ UNCHANGED stack
           ELSE /\ stack' = [stack EXCEPT ![Len(stack)] = g + 1]
                /\ pc' = "loop"
                /\ UNCHANGED <<indices, current>>
    /\ UNCHANGED <<groups, max, result, dbVars, taskVars, httpVars, searchVars, callVars>>

\* GenReturn without the undo of current (line 98 left out)
GenReturnKeepsCurrent ==
    /\ pc = "ret"
    /\ IF Len(stack) = 0
       THEN /\ pc' = "done"
            /\ UNCHANGED <<indices, current, stack>>
       ELSE LET g == stack[Len(stack)]
            IN  /\ indices' = [indices EXCEPT ![g] = @ - 1]
                /\ current' = current
                /\ stack' = [stack EXCEPT ![Len(stack)] = g + 1]
                /\ pc' = "loop"
    /\ UNCHANGED <<groups, max, result, dbVars, taskVars, httpVars, searchVars, callVars>>

\* GenReturn with the undo left out once the cap is reached (the
\* enumeration unwinding without restoring what it will not use again)
GenReturnUnwinds ==
    /\ pc = "ret"
    /\ IF Len(stack) = 0
       THEN /\ pc' = "done"
            /\ UNCHANGED <<indices, current, stack>>
       ELSE LET g == stack[Len(stack)]
            IN  /\ indices' = IF Len(result) >= max THEN indices
                              ELSE [indices EXCEPT ![g] = @ - 1]
                /\ current' = IF Len(result) >= max THEN current
                              ELSE SubSeq(current, 1, Len(current) - 1)
                /\ stack' = [stack EXCEPT ![Len(stack)] = g + 1]
                /\ pc' = "loop"
    /\ UNCHANGED <<groups, max, result, dbVars, taskVars, httpVars, searchVars, callVars>>

\* lines 97-98 after a call of gen returns: the undo, then the next g; or
\* line 103 when the first call returns
GenReturn ==
    /\ pc = "ret"
    /\ IF Len(stack) = 0
       THEN /\ pc' = "done"
            /\ UNCHANGED <<indices, current, stack>>
       ELSE LET g == stack[Len(stack)]
            IN  /\ indices' = [indices EXCEPT ![g] = @ - 1]
                /\ current' = SubSeq(current, 1, Len(current) - 1)
                /\ stack' = [stack EXCEPT ![Len(stack)] = g + 1]
                /\ pc' = "loop"
    /\ UNCHANGED <<groups, max, result, dbVars, taskVars, httpVars, searchVars, callVars>>

\* a direct call allInterleavings(groups, max)
InitEnumCall ==
    /\ InitDB /\ InitSearch /\ InitTasks /\ InitHTTP /\ InitCall
    /\ groups \in EnumGroups
    /\ max \in 0..MaxCap
    /\ result = <<>>
    /\ indices = <<>>
    /\ current = <<>>
    /\ stack = <<>>
    /\ pc = "call"

NextEnum ==
    \/ AllInterleavingsCall
    \/ GenEnter
    \/ GenLoop
    \/ GenReturn

SpecEnum == InitEnumCall /\ [][NextEnum]_vars

---------------------------------------------------------------------------
\* Direct calls of the scoring functions (as the package's tests make them)

CallGroupStopsByParticipant ==
    /\ called = "none"
    /\ called' = "groupStopsByParticipant"
    /\ ret' = groupStopsByParticipant(route.Stops)
    /\ UNCHANGED <<route, search, dbVars, taskVars, httpVars, searchVars, enumVars>>

CallCalculateDeviation ==
    /\ called = "none"
    /\ called' = "CalculateDeviation"
    /\ ret' = CalculateDeviation(route, search)
    /\ UNCHANGED <<route, search, dbVars, taskVars, httpVars, searchVars, enumVars>>

NextFn ==
    \/ CallGroupStopsByParticipant
    \/ CallCalculateDeviation

\* on routes of few stops, every search input
InitFn ==
    /\ InitDB /\ InitSearch /\ InitTasks /\ InitHTTP /\ InitEnum
    /\ route \in CallRoutes
    /\ search \in SearchInputs
    /\ called = "none"
    /\ ret = 0

SpecFn == InitFn /\ [][NextFn]_vars

\* on routes of many stops and contributors (and of at most one stop)
InitMany ==
    /\ InitDB /\ InitSearch /\ InitTasks /\ InitHTTP /\ InitEnum
    /\ route \in ManyRoutes \cup FewRoutes
    /\ search \in ManySearches
    /\ called = "none"
    /\ ret = 0

SpecMany == InitMany /\ [][NextFn]_vars

\* the case "route with participant stops" of TestCalculateDeviation, in
\* half degrees: a route from (0, 0) to (3, 3) degrees with stops at (1, 1)
\* and (2, 2) of one application, and a search with the same endpoints and
\* the via-point (1.5, 1.5)
ScenarioRoute ==
    [MkRoute(1, 0, 6, 0, 0, 0,
             << [MkStop(1, 1, 0, 2) EXCEPT !.Lng = 2],
                [MkStop(2, 1, 1, 4) EXCEPT !.Lng = 4] >>)
       EXCEPT !.EndLng = 6]

ScenarioSearch ==
    [MkSearch(0, 6, << [Lat |-> 3, Lng |-> 3] >>) EXCEPT !.EndLng = 6]

\* that case, and the routes of few stops with every list of via-points
\* between their own endpoints
InitScenario ==
    /\ InitDB /\ InitSearch /\ InitTasks /\ InitHTTP /\ InitEnum
    /\ \/ route = ScenarioRoute /\ search = ScenarioSearch
       \/ route \in CallRoutes /\ search \in { MkSearch(0, 8, v) : v \in ViaLists }
    /\ called = "none"
    /\ ret = 0

NextScenario == CallCalculateDeviation

SpecScenario == InitScenario /\ [][NextScenario]_vars

\* searches with via-points anywhere along the way, on the routes of at
\* most one stop and on a route whose two contributors' stops come in the
\* order 6, 2
WideViaLists ==
    UNION { [1..n -> { MkVia(v) : v \in {1, 3, 4, 5} }] : n \in 0..MaxVia }

InitVia ==
    /\ InitDB /\ InitSearch /\ InitTasks /\ InitHTTP /\ InitEnum
    /\ route \in FewRoutes
                 \cup { MkRoute(1, 0, 8, 1, 0, 1, <<MkStop(1, 1, 0, 6), MkStop(2, 2, 1, 2)>>) }
    /\ search \in { MkSearch(e[1], e[2], v) : e \in SearchEndpoints, v \in WideViaLists }
    /\ called = "none"
    /\ ret = 0

SpecVia == InitVia /\ [][NextScenario]_vars

\* direct calls of the leg functions on the route's own stop list
CallBuildSegmentsFromStops ==
    /\ called = "none"
    /\ called' = "buildSegmentsFromStops"
    /\ ret' = buildSegmentsFromStops(route.StartLat, route.StartLng,
                                     route.EndLat, route.EndLng, route.Stops)
    /\ UNCHANGED <<route, search, dbVars, taskVars, httpVars, searchVars, enumVars>>

CallDeviationForStops ==
    /\ called = "none"
    /\ called' = "deviationForStops"
    /\ ret' = deviationForStops(route.StartLat, route.StartLng,
                                route.EndLat, route.EndLng, route.Stops, search)
    /\ UNCHANGED <<route, search, dbVars, taskVars, httpVars, searchVars, enumVars>>

NextLegs ==
    \/ CallBuildSegmentsFromStops
    \/ CallDeviationForStops

\* on routes of few stops, every list of via-points
InitLegs ==
    /\ InitDB /\ InitSearch /\ InitTasks /\ InitHTTP /\ InitEnum
    /\ route \in CallRoutes
    /\ search \in { MkSearch(0, 8, v) : v \in ViaLists }
    /\ called = "none"
    /\ ret = 0

SpecLegs == InitLegs /\ [][NextLegs]_vars

\* via-points on the far side of the globe: routes that leave at 2 or 3
\* degrees north and arrive at 4 or 5, without a stop or with one stop at
\* 4 degrees, and riders with the route's endpoints and up to two
\* via-points among (3.5, 0), on the way, and (-3.5, 180) and (-4, 180),
\* the antipodes of (3.5, 0) and (4, 0)
InitAntipodes ==
    /\ InitDB /\ InitSearch /\ InitTasks /\ InitHTTP /\ InitEnum
    /\ route \in { MkRoute(1, s, e, 1, 0, 1, st) :
                      s \in {4, 6}, e \in {8, 10},
                      st \in { <<>>, <<MkStop(1, NilApplication, 0, 8)>> } }
    /\ search \in { MkSearch(route.StartLat, route.EndLat, v) :
                       v \in UNION { [1..n -> { MkVia(7),
                                                [Lat |-> -7, Lng |-> HalfTurn],
                                                [Lat |-> -8, Lng |-> HalfTurn] }] :
                                     n \in 0..2 } }
    /\ called = "none"
    /\ ret = 0

NextAntipodes ==
    \/ NextLegs
    \/ CallCalculateDeviation

SpecAntipodes == InitAntipodes /\ [][NextAntipodes]_vars

\* direct calls of Haversine, between the start of the search and the start
\* of the route (line 21), and the same with the two points exchanged
CallHaversine ==
    /\ called = "none"
    /\ called' = "Haversine"
    /\ ret' = Haversine(search.StartLat, search.StartLng, route.StartLat, route.StartLng)
    /\ UNCHANGED <<route, search, dbVars, taskVars, httpVars, searchVars, enumVars>>

CallHaversineExchanged ==
    /\ called = "Haversine"
    /\ called' = "Haversine exchanged"
    /\ ret' = <<ret, Haversine(route.StartLat, route.StartLng,
                               search.StartLat, search.StartLng)>>
    /\ UNCHANGED <<route, search, dbVars, taskVars, httpVars, searchVars, enumVars>>

NextHaversine ==
    \/ CallHaversine
    \/ CallHaversineExchanged

\* points <<lat, lng>>: of the zero meridian (both poles among them), of the
\* equator (both ends of the longitude range among them), and the poles at
\* other longitudes
HaversinePoints ==
    { <<lat, Meridian>> : lat \in {-180, -90, -4, 0, 2, 8, 180} }
    \cup { <<0, lng>> : lng \in {-360, -200, -6, 4, 300, 360} }
    \cup { <<180, 4>>, <<-180, -6>>, <<-180, 360>> }

\* the pairs of points for which Haversine has its closed form
HaversinePairs ==
    { pq \in HaversinePoints \X HaversinePoints :
        \/ pq[1][2] = pq[2][2]
        \/ pq[1][1] = 0 /\ pq[2][1] = 0
        \/ 2 * Abs(pq[1][1]) = HalfTurn \/ 2 * Abs(pq[2][1]) = HalfTurn }

InitHaversine ==
    /\ InitDB /\ InitSearch /\ InitTasks /\ InitHTTP /\ InitEnum
    /\ \E pq \in HaversinePairs :
         /\ search = [NoSearch EXCEPT !.StartLat = pq[1][1], !.StartLng = pq[1][2]]
         /\ route = [NoRoute EXCEPT !.StartLat = pq[2][1], !.StartLng = pq[2][2]]
    /\ called = "none"
    /\ ret = 0

SpecHaversine == InitHaversine /\ [][NextHaversine]_vars

---------------------------------------------------------------------------
\* CalculateDeviation, with its call of allInterleavings step by step

\* DevCall grouping the stops by sorting route.Stops in place by contributor
DevCallSortsInPlace ==
    /\ called = "none"
    /\ pc = "idle"
    /\ called' = "CalculateDeviation: allInterleavings"
    /\ groups' = groupStopsByParticipant(route.Stops)
    /\ route' = [route EXCEPT !.Stops =
                    LET gs == groupStopsByParticipant(route.Stops)
                        flat[g \in 0..Len(gs)] ==
                            IF g = 0 THEN <<>> ELSE flat[g - 1] \o gs[g]
                    IN  flat[Len(gs)]]
    /\ max' = maxInterleavings
    /\ pc' = "call"
    /\ UNCHANGED <<result, indices, current, stack, search, ret, dbVars, taskVars, httpVars, searchVars>>

\* DevCall with the groups read back by ranging over a map keyed by
\* contributor: Go leaves the order of a map range unspecified, and two of
\* the orders are the order of first appearance and its reverse
DevCallRangesOverMap ==
    /\ called = "none"
    /\ pc = "idle"
    /\ called' = "CalculateDeviation: allInterleavings"
    /\ LET gs == groupStopsByParticipant(route.Stops)
       IN  groups' \in { gs, [g \in 1..Len(gs) |-> gs[Len(gs) + 1 - g]] }
    /\ max' = maxInterleavings
    /\ pc' = "call"
    /\ UNCHANGED <<result, indices, current, stack, route, search, ret,
                   dbVars, taskVars, httpVars, searchVars>>

\* lines 21-25: the groups of the route's stops, and the call
\* allInterleavings(groups, maxInterleavings)
DevCall ==
    /\ called = "none"
    /\ pc = "idle"
    /\ called' = "CalculateDeviation: allInterleavings"
    /\ groups' = groupStopsByParticipant(route.Stops)
    /\ max' = maxInterleavings
    /\ pc' = "call"
    /\ UNCHANGED <<result, indices, current, stack, route, search, ret,
                   dbVars, taskVars, httpVars, searchVars>>

\* lines 27-38: allInterleavings has returned the orderings; the score
DevReturn ==
    /\ called = "CalculateDeviation: allInterleavings"
    /\ pc = "done"
    /\ called' = "CalculateDeviation"
    /\ ret' = scoreOrderings(route, search, result)
    /\ UNCHANGED <<route, search, enumVars, dbVars, taskVars, httpVars, searchVars>>

\* routes of up to MaxStops stops, each of any contributor, the first stop
\* at the far stop latitude
StepRoutes ==
    UNION { { MkRoute(1, 0, 8, 1, 0, 1,
                      [i \in 1..n |-> MkStop(i, f[i], i - 1, IF i = 1 THEN 6 ELSE 2)]) :
                f \in [1..n -> 0..MaxApps] } : n \in 0..MaxStops }

\* a call of CalculateDeviation about to be made
InitSteps ==
    /\ InitDB /\ InitSearch /\ InitTasks /\ InitHTTP /\ InitEnum
    /\ route \in StepRoutes
    /\ search = MkSearch(2, 8, <<MkVia(3)>>)
    /\ called = "none"
    /\ ret = 0

NextSteps ==
    \/ DevCall
    \/ AllInterleavingsCall
    \/ GenEnter
    \/ GenLoop
    \/ GenReturn
    \/ DevReturn

SpecSteps == InitSteps /\ [][NextSteps]_vars

\* calls of CalculateDeviation, and direct calls of allInterleavings under
\* small caps
SpecStepsAndCalls == (InitSteps \/ InitEnumCall) /\ [][NextSteps]_vars

\* a call that has started goes on until it returns
SpecStepsFair == SpecSteps /\ WF_vars(NextSteps)

---------------------------------------------------------------------------
\* internal/route/route.go: the database and Search

\* the inputs of Create: [StartLat, EndLat, MaxPassengers, MaxDeviation, Stops]
CreateInputs ==
    { [StartLat |-> 0, EndLat |-> 8, MaxPassengers |-> 1, MaxDeviation |-> 0,
       Stops |-> <<>>],
      [StartLat |-> 2, EndLat |-> 8, MaxPassengers |-> 2, MaxDeviation |-> 2,
       Stops |-> <<>>],
      [StartLat |-> 0, EndLat |-> 8, MaxPassengers |-> 1, MaxDeviation |-> 2,
       Stops |-> <<6>>] }

\* the search inputs of SearchRoutes
SearchQueries ==
    { MkSearch(s, 8, v) : s \in {0, 2}, v \in { <<>>, <<MkVia(5)>> } }

\* Create: the row of routes, then one row of route_stops per stop of the
\* input, each its own statement; n is the number of stop rows written
\* before a statement fails (all of them when none does).  The route's id
\* is its row number, a stop's id the pair of route and position.
Create(in, n) ==
    /\ searchIn = NoSearch
    /\ Len(routes) < MaxRoutes
    /\ n \in 0..Len(in.Stops)
    /\ LET id == Len(routes) + 1
       IN  /\ routes' = Append(routes,
                [id |-> id, start_lat |-> in.StartLat, start_lng |-> Meridian,
                 end_lat |-> in.EndLat, end_lng |-> Meridian,
                 max_passengers |-> in.MaxPassengers,
                 max_deviation |-> in.MaxDeviation, deleted_at |-> FALSE])
           /\ route_stops' = route_stops \cup
                { [id |-> <<id, i - 1>>, route_id |-> id,
                   application_id |-> NilApplication, position |-> i - 1,
                   lat |-> in.Stops[i], lng |-> Meridian,
                   status |-> "approved", deleted_at |-> FALSE] : i \in 1..n }
           /\ participants' = Append(participants, 0)
    /\ UNCHANGED <<searchVars, taskVars, httpVars, enumVars, callVars>>

\* table participants, written by the application service outside this
\* package: participants[r] is the number of rows of route r with
\* deleted_at IS NULL; a row is added, or soft-deleted
ParticipantJoins(r) ==
    /\ searchIn = NoSearch
    /\ r \in 1..Len(routes)
    /\ participants[r] < MaxParticipants
    /\ participants' = [participants EXCEPT ![r] = @ + 1]
    /\ UNCHANGED <<routes, route_stops, searchVars, taskVars, httpVars, enumVars, callVars>>

ParticipantLeaves(r) ==
    /\ searchIn = NoSearch
    /\ r \in 1..Len(routes)
    /\ participants[r] > 0
    /\ participants' = [participants EXCEPT ![r] = @ - 1]
    /\ UNCHANGED <<routes, route_stops, searchVars, taskVars, httpVars, enumVars, callVars>>

\* the rows of a set of stop rows in ORDER BY position
RECURSIVE ByPosition(_)
ByPosition(rows) ==
    IF rows = {} THEN <<>>
    ELSE LET first == CHOOSE x \in rows : \A y \in rows : x.position <= y.position
         IN  <<first>> \o ByPosition(rows \ {first})

\* fetchRouteStops without `AND status = 'approved'`
fetchRouteStopsAnyStatus(routeID) ==
    LET rows == { x \in route_stops : x.route_id = routeID /\ ~x.deleted_at }
        ord  == ByPosition(rows)
    IN  [i \in 1..Len(ord) |->
            [ID |-> ord[i].id, ApplicationID |-> ord[i].application_id,
             Position |-> ord[i].position, Lat |-> ord[i].lat, Lng |-> ord[i].lng,
             Status |-> ord[i].status]]

\* fetchRouteStops: the live approved stops of the route, by position
fetchRouteStops(routeID) ==
    LET rows == { x \in route_stops :
                    x.route_id = routeID /\ ~x.deleted_at /\ x.status = "approved" }
        ord  == ByPosition(rows)
    IN  [i \in 1..Len(ord) |->
            [ID |-> ord[i].id, ApplicationID |-> ord[i].application_id,
             Position |-> ord[i].position, Lat |-> ord[i].lat, Lng |-> ord[i].lng,
             Status |-> ord[i].status]]

\* the scalar subquery of fetchSearchableRoutes: the live participants
participantCount(routeID) == participants[routeID]

\* the WHERE clause of fetchSearchableRoutes with `>=` for `>`
searchableWhereAtLeast(row) ==
    /\ ~row.deleted_at
    /\ row.max_passengers >= participantCount(row.id)

\* the WHERE clause of fetchSearchableRoutes
searchableWhere(row) ==
    /\ ~row.deleted_at
    /\ row.max_passengers > participantCount(row.id)

\* GREATEST(0, max_passengers - count)
availablePassengers(row) ==
    IF row.max_passengers - participantCount(row.id) > 0
    THEN row.max_passengers - participantCount(row.id)
    ELSE 0

\* rows.Scan and fetchRouteStops in fetchSearchableRoutes: the Route of a
\* selected row
scanRoute(row) ==
    MkRoute(row.id, row.start_lat, row.end_lat, row.max_passengers, row.max_deviation,
            availablePassengers(row), fetchRouteStops(row.id))

\* the loop of fetchSearchableRoutes going on to the next row (`continue`)
\* when the stops of a route cannot be fetched
RECURSIVE fetchSearchableLoopSkipsFailed(_, _, _)
fetchSearchableLoopSkipsFailed(i, rs, fault) ==
    IF i > Len(routes)
    THEN IF fault.at = "rows"
         THEN [routes |-> <<>>, err |-> TRUE]
         ELSE [routes |-> rs, err |-> FALSE]
    ELSE IF searchableWhere(routes[i])
    THEN IF fault.at = "scan" /\ fault.row = i
         THEN [routes |-> <<>>, err |-> TRUE]
         ELSE IF fault.at = "stops" /\ fault.row = i
         THEN fetchSearchableLoopSkipsFailed(i + 1, rs, fault)
         ELSE fetchSearchableLoopSkipsFailed(i + 1, Append(rs, scanRoute(routes[i])), fault)
    ELSE fetchSearchableLoopSkipsFailed(i + 1, rs, fault)

\* fetchSearchableRoutes: a Route per selected row (rows come in table
\* order); nil and the error when the scan of a selected row, the fetch of
\* its stops, or the end of the rows fails
RECURSIVE fetchSearchableLoop(_, _, _)
fetchSearchableLoop(i, rs, fault) ==
    IF i > Len(routes)
    THEN IF fault.at = "rows"
         THEN [routes |-> <<>>, err |-> TRUE]
         ELSE [routes |-> rs, err |-> FALSE]
    ELSE IF searchableWhere(routes[i])
    THEN IF fault.at \in {"scan", "stops"} /\ fault.row = i
         THEN [routes |-> <<>>, err |-> TRUE]
         ELSE fetchSearchableLoop(i + 1, Append(rs, scanRoute(routes[i])), fault)
    ELSE fetchSearchableLoop(i + 1, rs, fault)

fetchSearchableRoutes(fault) ==
    IF fault.at = "query"
    THEN [routes |-> <<>>, err |-> TRUE]
    ELSE fetchSearchableLoop(1, <<>>, fault)

\* the scoring loop of Search without the threshold test
RECURSIVE searchLoopKeepsAll(_, _, _, _)
searchLoopKeepsAll(rs, in, i, withDev) ==
    IF i > Len(rs) THEN withDev
    ELSE searchLoopKeepsAll(rs, in, i + 1,
             Append(withDev, [route |-> rs[i], dev |-> CalculateDeviation(rs[i], in)]))

\* the calls of CalculateDeviation the scoring loop makes: one per fetched
\* route, in order, with the score returned
scoredCandidates(rs, in) ==
    [i \in 1..Len(rs) |-> [route |-> rs[i], dev |-> CalculateDeviation(rs[i], in)]]

\* the scoring loop of Search: the routes within their threshold, each
\* with its deviation
RECURSIVE searchLoop(_, _, _, _)
searchLoop(rs, in, i, withDev) ==
    IF i > Len(rs) THEN withDev
    ELSE LET dev == CalculateDeviation(rs[i], in)
         IN  IF Less(rs[i].MaxDeviation, dev)
             THEN searchLoop(rs, in, i + 1, withDev)
             ELSE searchLoop(rs, in, i + 1,
                             Append(withDev, [route |-> rs[i], dev |-> dev]))

\* the permutations of 1..n
IndexPermutations(n) == { f \in [1..n -> 1..n] : \A i, j \in 1..n : f[i] = f[j] => i = j }

\* sort.Slice(withDev, less by dev): sort.Slice is not stable, so the
\* outcomes are the rearrangements in which no later element is less than
\* an earlier one; with a NaN among the deviations `less` is not an
\* ordering and the outcome is some rearrangement
sortSlice(withDev) ==
    { [i \in 1..Len(withDev) |-> withDev[f[i]]] : f \in
        { f \in IndexPermutations(Len(withDev)) :
            \/ \E k \in 1..Len(withDev) : withDev[k].dev = NaN
            \/ \A i, j \in 1..Len(withDev) :
                  i < j => ~Less(withDev[f[j]].dev, withDev[f[i]].dev) } }

\* Search(in) with the database failing as `fault` says: either
\* fetchSearchableRoutes fails and Search returns nil and the error, having
\* scored nothing, or it scores the fetched routes and returns those within
\* their threshold, sorted by deviation
Search(in, fault) ==
    /\ searchIn = NoSearch
    /\ in # NoSearch
    /\ searchIn' = in
    /\ searchFault' = fault
    /\ LET fetched == fetchSearchableRoutes(fault)
       IN  IF fetched.err
           THEN /\ searchErr' = TRUE
                /\ searchOut' = <<>>
                /\ searchScored' = <<>>
           ELSE /\ searchErr' = FALSE
                /\ searchScored' = scoredCandidates(fetched.routes, in)
                /\ \E sorted \in sortSlice(searchLoop(fetched.routes, in, 1, <<>>)) :
                      searchOut' = [i \in 1..Len(sorted) |-> sorted[i].route]
    /\ UNCHANGED <<dbVars, taskVars, httpVars, enumVars, callVars>>

\* SearchRoutes has written its response: no call of Search is under way
SearchRoutesResponds ==
    /\ searchIn # NoSearch
    /\ searchIn' = NoSearch
    /\ searchOut' = <<>>
    /\ searchErr' = FALSE
    /\ searchScored' = <<>>
    /\ searchFault' = NoFault
    /\ UNCHANGED <<dbVars, taskVars, httpVars, enumVars, callVars>>

InitService ==
    InitDB /\ InitSearch /\ InitTasks /\ InitHTTP /\ InitEnum /\ InitCall

NextService ==
    \/ \E in \in CreateInputs : \E n \in 0..Len(in.Stops) : Create(in, n)
    \/ \E r \in 1..MaxRoutes : ParticipantJoins(r)
    \/ \E r \in 1..MaxRoutes : ParticipantLeaves(r)
    \/ \E in \in SearchQueries : \E fault \in QueryFaults : Search(in, fault)
    \/ SearchRoutesResponds

SpecService == InitService /\ [][NextService]_vars

\* Search with the database failing at any of its calls
NextFaults ==
    \/ \E in \in CreateInputs : \E n \in 0..Len(in.Stops) : Create(in, n)
    \/ \E r \in 1..MaxRoutes : ParticipantJoins(r)
    \/ \E r \in 1..MaxRoutes : ParticipantLeaves(r)
    \/ \E fault \in Faults(Len(routes)) : Search(MkSearch(2, 8, <<>>), fault)
    \/ SearchRoutesResponds

SpecFaults == InitService /\ [][NextFaults]_vars

\* Searches from the far side of the globe.  Routes between 4 and 8 degrees
\* north on the meridian, some of drivers who accept any deviation,
\* and riders who start at the antipode of a route's start, (-6, 180) or
\* (-4, 180) degrees, or at the route's start itself, all going where the
\* routes go.
FarCreateInputs ==
    { [StartLat |-> 12, EndLat |-> 16, MaxPassengers |-> 1, MaxDeviation |-> 2,
       Stops |-> <<>>],
      [StartLat |-> 8, EndLat |-> 16, MaxPassengers |-> 2, MaxDeviation |-> 400,
       Stops |-> <<>>],
      [StartLat |-> 10, EndLat |-> 16, MaxPassengers |-> 1, MaxDeviation |-> 4,
       Stops |-> <<>>],
      [StartLat |-> 10, EndLat |-> 16, MaxPassengers |-> 1, MaxDeviation |-> 400,
       Stops |-> <<>>],
      [StartLat |-> 12, EndLat |-> 16, MaxPassengers |-> 1, MaxDeviation |-> 0,
       Stops |-> <<14>>] }

FarQueries ==
    { [MkSearch(-12, 16, <<>>) EXCEPT !.StartLng = HalfTurn],
      [MkSearch(-8, 16, <<>>) EXCEPT !.StartLng = HalfTurn],
      MkSearch(12, 16, <<>>),
      MkSearch(12, 16, <<MkVia(13)>>) }

NextFar ==
    \/ \E in \in FarCreateInputs : \E n \in 0..Len(in.Stops) : Create(in, n)
    \/ \E r \in 1..MaxRoutes : ParticipantJoins(r)
    \/ \E r \in 1..MaxRoutes : ParticipantLeaves(r)
    \/ \E in \in FarQueries : Search(in, NoFault)
    \/ SearchRoutesResponds

SpecFar == InitService /\ [][NextFar]_vars

---------------------------------------------------------------------------
\* Table route_stops beyond what Create writes.  Its column status is
\* 'pending' by default and has the values pending, approved, rejected; a
\* row carries the application that proposed it and can be soft-deleted, as
\* a route can.  The rows are written by the application service outside
\* this package.

\* stop rows proposed by applications, in the whole table
MaxProposed == 2

\* what an application proposes: application 1 a stop at latitude 2,
\* application 2 a stop at latitude 6
ProposedStops == { [app |-> 1, lat |-> 2], [app |-> 2, lat |-> 6] }

\* the rows of route r
StopRowsOf(r) == { x \in route_stops : x.route_id = r }

\* an application proposes a stop for route r: a row with the default
\* status, at the next position of the route
StopProposed(r, p) ==
    /\ searchIn = NoSearch
    /\ r \in 1..Len(routes)
    /\ Cardinality({ x \in route_stops : x.application_id # NilApplication }) < MaxProposed
    /\ LET pos == Cardinality(StopRowsOf(r))
       IN  route_stops' = route_stops \cup
             { [id |-> <<r, pos>>, route_id |-> r, application_id |-> p.app,
                position |-> pos, lat |-> p.lat, lng |-> Meridian,
                status |-> "pending", deleted_at |-> FALSE] }
    /\ UNCHANGED <<routes, participants, searchVars, taskVars, httpVars, enumVars, callVars>>

\* a pending stop is approved or rejected
StopReviewed(x, st) ==
    /\ searchIn = NoSearch
    /\ x \in route_stops
    /\ x.status = "pending"
    /\ ~x.deleted_at
    /\ st \in {"approved", "rejected"}
    /\ route_stops' = (route_stops \ {x}) \cup { [x EXCEPT !.status = st] }
    /\ UNCHANGED <<routes, participants, searchVars, taskVars, httpVars, enumVars, callVars>>

\* a stop row is soft-deleted
StopRemoved(x) ==
    /\ searchIn = NoSearch
    /\ x \in route_stops
    /\ ~x.deleted_at
    /\ route_stops' = (route_stops \ {x}) \cup { [x EXCEPT !.deleted_at = TRUE] }
    /\ UNCHANGED <<routes, participants, searchVars, taskVars, httpVars, enumVars, callVars>>

\* a route is soft-deleted
RouteRemoved(r) ==
    /\ searchIn = NoSearch
    /\ r \in 1..Len(routes)
    /\ ~routes[r].deleted_at
    /\ routes' = [routes EXCEPT ![r].deleted_at = TRUE]
    /\ UNCHANGED <<route_stops, participants, searchVars, taskVars, httpVars, enumVars, callVars>>

\* the database after two calls of Create: a route from 0 to 8 with one stop
\* at 6, and a route from 2 to 8 without stops, both with threshold 2
InitStopRows ==
    /\ routes = << [id |-> 1, start_lat |-> 0, start_lng |-> Meridian,
                    end_lat |-> 8, end_lng |-> Meridian, max_passengers |-> 1,
                    max_deviation |-> 2, deleted_at |-> FALSE],
                   [id |-> 2, start_lat |-> 2, start_lng |-> Meridian,
                    end_lat |-> 8, end_lng |-> Meridian, max_passengers |-> 2,
                    max_deviation |-> 2, deleted_at |-> FALSE] >>
    /\ route_stops = { [id |-> <<1, 0>>, route_id |-> 1,
                        application_id |-> NilApplication, position |-> 0,
                        lat |-> 6, lng |-> Meridian,
                        status |-> "approved", deleted_at |-> FALSE] }
    /\ participants = <<0, 0>>
    /\ InitSearch /\ InitTasks /\ InitHTTP /\ InitEnum /\ InitCall

NextStopRows ==
    \/ \E r \in 1..Len(routes) : \E p \in ProposedStops : StopProposed(r, p)
    \/ \E x \in route_stops : \E st \in {"approved", "rejected"} : StopReviewed(x, st)
    \/ \E x \in route_stops : StopRemoved(x)
    \/ \E r \in 1..Len(routes) : RouteRemoved(r)
    \/ \E in \in SearchQueries : \E fault \in QueryFaults : Search(in, fault)
    \/ SearchRoutesResponds

SpecStopRows == InitStopRows /\ [][NextStopRows]_vars

---------------------------------------------------------------------------
\* The scoring loop of Search with its iterations run as concurrent tasks,
\* one call of CalculateDeviation per candidate route, their steps
\* interleaved in any way.  The variables of the step-by-step call (route,
\* called, ret and the activation of allInterleavings) are those of the
\* task that is executing; tasks[t] keeps the variables of task t while
\* another task executes.

Tasks == {1, 2}

\* ActivationLocals with the buffer `current` declared at package level, one
\* for all calls, instead of inside allInterleavings
ActivationLocalsSharedBuffer ==
    {"route", "called", "ret", "groups", "max", "result", "indices", "stack", "pc"}

\* the variables that belong to one call of CalculateDeviation: its
\* argument and return value, and the parameters of allInterleavings with
\* the variables declared in it (result, indices, current) and gen's
\* activations; the package declares no variable, only maxInterleavings
ActivationLocals ==
    {"route", "called", "ret", "groups", "max", "result", "indices", "current",
     "stack", "pc"}

\* the variables of the executing call, and their values when no call has
\* started
Registers ==
    [route |-> route, called |-> called, ret |-> ret, groups |-> groups,
     max |-> max, result |-> result, indices |-> indices, current |-> current,
     stack |-> stack, pc |-> pc]

IdleRegisters ==
    [route |-> NoRoute, called |-> "none", ret |-> 0, groups |-> <<>>,
     max |-> 0, result |-> <<>>, indices |-> <<>>, current |-> <<>>,
     stack |-> <<>>, pc |-> "idle"]

\* the part of a set of values that belongs to one call
OwnLocals(c) == [n \in ActivationLocals |-> c[n]]

\* the executing call's variables become those of c; a variable that is
\* not a call's own stays as it is
Load(c) ==
    /\ route'   = IF "route"   \in DOMAIN c THEN c.route   ELSE route
    /\ called'  = IF "called"  \in DOMAIN c THEN c.called  ELSE called
    /\ ret'     = IF "ret"     \in DOMAIN c THEN c.ret     ELSE ret
    /\ groups'  = IF "groups"  \in DOMAIN c THEN c.groups  ELSE groups
    /\ max'     = IF "max"     \in DOMAIN c THEN c.max     ELSE max
    /\ result'  = IF "result"  \in DOMAIN c THEN c.result  ELSE result
    /\ indices' = IF "indices" \in DOMAIN c THEN c.indices ELSE indices
    /\ current' = IF "current" \in DOMAIN c THEN c.current ELSE current
    /\ stack'   = IF "stack"   \in DOMAIN c THEN c.stack   ELSE stack
    /\ pc'      = IF "pc"      \in DOMAIN c THEN c.pc      ELSE pc

\* task t, which has not returned its score, executes
TaskDispatch(t) ==
    /\ running = 0
    /\ tasks[t].called # "CalculateDeviation"
    /\ running' = t
    /\ Load(tasks[t])
    /\ UNCHANGED <<tasks, collected, search, dbVars, searchVars, httpVars>>

\* the executing task stops executing, for now or, with its score returned
\* and collected, for good
TaskYield ==
    /\ running # 0
    /\ tasks' = [tasks EXCEPT ![running] = OwnLocals(Registers)]
    /\ collected' = IF called = "CalculateDeviation"
                    THEN Append(collected, [task |-> running, route |-> route, dev |-> ret])
                    ELSE collected
    /\ running' = 0
    /\ Load(OwnLocals(IdleRegisters))
    /\ UNCHANGED <<search, dbVars, searchVars, httpVars>>

\* the threshold test of Search on a collected score
WithinThreshold(x) == ~(x.dev > x.route.MaxDeviation)

\* all tasks have returned: the collected scores are filtered and sorted as
\* Search does
ParallelCollect ==
    /\ running = 0
    /\ searchIn = NoSearch
    /\ \A t \in Tasks : tasks[t].called = "CalculateDeviation"
    /\ searchIn' = search
    /\ searchErr' = FALSE
    /\ searchScored' = [i \in 1..Len(collected) |->
                            [route |-> collected[i].route, dev |-> collected[i].dev]]
    /\ searchFault' = NoFault
    /\ \E sorted \in sortSlice(SelectSeq(collected, WithinThreshold)) :
          searchOut' = [i \in 1..Len(sorted) |-> sorted[i].route]
    /\ UNCHANGED <<dbVars, taskVars, httpVars, enumVars, callVars>>

\* the candidate routes of the tasks
ParallelRoutes ==
    { MkRoute(1, 0, 8, 1, 0, 1, <<MkStop(1, 1, 0, 6), MkStop(2, NilApplication, 1, 2)>>),
      MkRoute(2, 0, 8, 1, 4, 1, <<MkStop(1, NilApplication, 0, 2), MkStop(2, 1, 1, 6),
                                  MkStop(3, NilApplication, 2, 2)>>),
      MkRoute(3, 2, 8, 1, 2, 1, <<>>) }

InitParallel ==
    /\ InitDB /\ InitSearch /\ InitEnum /\ InitHTTP
    /\ route = NoRoute
    /\ called = "none"
    /\ ret = 0
    /\ search = MkSearch(2, 8, <<MkVia(3)>>)
    /\ running = 0
    /\ collected = <<>>
    /\ tasks \in { [t \in Tasks |-> OwnLocals([IdleRegisters EXCEPT !.route = f[t]])] :
                     f \in [Tasks -> ParallelRoutes] }

NextParallel ==
    \/ \E t \in Tasks : TaskDispatch(t)
    \/ TaskYield
    \/ running # 0 /\ NextSteps
    \/ ParallelCollect

SpecParallel == InitParallel /\ [][NextParallel]_vars

---------------------------------------------------------------------------
\* internal/middleware/middleware.go: the real client IP.  A string that
\* the code splits or trims is a sequence of pieces: a space " ", a comma
\* ",", or a word (a run of other characters); other strings are single
\* words, "" being the empty string.  IP addresses are IPv4, four octets.

\* strings.TrimSpace
RECURSIVE TrimLeft(_)
TrimLeft(str) ==
    IF str # <<>> /\ Head(str) = " " THEN TrimLeft(Tail(str)) ELSE str

RECURSIVE TrimRight(_)
TrimRight(str) ==
    IF str # <<>> /\ str[Len(str)] = " "
    THEN TrimRight(SubSeq(str, 1, Len(str) - 1))
    ELSE str

TrimSpace(str) == TrimRight(TrimLeft(str))

\* strings.Split(str, ","): the pieces between the commas, one more than
\* there are commas
RECURSIVE SplitLoop(_, _, _)
SplitLoop(str, i, acc) ==
    IF i > Len(str) THEN acc
    ELSE IF str[i] = ","
    THEN SplitLoop(str, i + 1, Append(acc, <<>>))
    ELSE SplitLoop(str, i + 1, [acc EXCEPT ![Len(acc)] = Append(@, str[i])])

Split(str) == SplitLoop(str, 1, << <<>> >>)

\* the words that read as "address/prefix length", with what they read as
CIDRWords ==
    ("127.0.0.0/8"    :> [ip |-> <<127, 0, 0, 0>>,   ones |-> 8])  @@
    ("10.0.0.0/8"     :> [ip |-> <<10, 0, 0, 0>>,    ones |-> 8])  @@
    ("10.1.2.3/8"     :> [ip |-> <<10, 1, 2, 3>>,    ones |-> 8])  @@
    ("10.128.0.0/9"   :> [ip |-> <<10, 128, 0, 0>>,  ones |-> 9])  @@
    ("192.168.1.0/24" :> [ip |-> <<192, 168, 1, 0>>, ones |-> 24])

\* the words that read as an address
IPWords ==
    ("127.0.0.1"    :> <<127, 0, 0, 1>>)    @@
    ("10.1.2.3"     :> <<10, 1, 2, 3>>)     @@
    ("10.200.0.1"   :> <<10, 200, 0, 1>>)   @@
    ("192.168.2.77" :> <<192, 168, 2, 77>>) @@
    ("203.0.113.9"  :> <<203, 0, 113, 9>>)

\* the remote addresses of TCP connections, "host:port", with their host
RemoteAddrs ==
    ("127.0.0.1:40000"   :> "127.0.0.1")    @@
    ("10.1.2.3:443"      :> "10.1.2.3")     @@
    ("10.200.0.1:8080"   :> "10.200.0.1")   @@
    ("192.168.2.77:5151" :> "192.168.2.77") @@
    ("203.0.113.9:61000" :> "203.0.113.9")

\* net.SplitHostPort: the host, "" when the address does not split
SplitHostPort(addr) ==
    IF addr \in DOMAIN RemoteAddrs THEN RemoteAddrs[addr] ELSE ""

\* a word as a string of pieces
Str(word) == IF word = "" THEN <<>> ELSE <<word>>

\* the first `ones` bits of an address, the rest cleared (IP.Mask)
MaskIP(ip, ones) ==
    [i \in 1..4 |->
        LET k == IF ones - 8 * (i - 1) < 0 THEN 0
                 ELSE IF ones - 8 * (i - 1) > 8 THEN 8
                 ELSE ones - 8 * (i - 1)
        IN  (ip[i] \div (2 ^ (8 - k))) * (2 ^ (8 - k))]

\* net.ParseCIDR: the network (the address masked, and the prefix length),
\* or an error
ParseCIDR(str) ==
    IF Len(str) = 1 /\ str[1] \in DOMAIN CIDRWords
    THEN LET c == CIDRWords[str[1]]
         IN  [net |-> [ip |-> MaskIP(c.ip, c.ones), ones |-> c.ones], err |-> FALSE]
    ELSE [net |-> [ip |-> <<0, 0, 0, 0>>, ones |-> 0], err |-> TRUE]

\* (*IPNet).Contains
Contains(n, ip) == MaskIP(ip, n.ones) = n.ip

\* the loop of ParseTrustedProxyCIDRs going on to the next entry
\* (`continue`) at an entry that does not parse
RECURSIVE parseCIDRsLoopSkipsInvalid(_, _, _)
parseCIDRsLoopSkipsInvalid(entries, i, out) ==
    IF i > Len(entries) THEN [networks |-> out, err |-> FALSE]
    ELSE LET str == TrimSpace(entries[i])
         IN  IF str = <<>> \/ ParseCIDR(str).err
             THEN parseCIDRsLoopSkipsInvalid(entries, i + 1, out)
             ELSE parseCIDRsLoopSkipsInvalid(entries, i + 1,
                                             Append(out, ParseCIDR(str).net))

\* the loop of ParseTrustedProxyCIDRs over the entries of the list
RECURSIVE parseCIDRsLoop(_, _, _)
parseCIDRsLoop(entries, i, out) ==
    IF i > Len(entries) THEN [networks |-> out, err |-> FALSE]
    ELSE LET str == TrimSpace(entries[i])
         IN  IF str = <<>>
             THEN parseCIDRsLoop(entries, i + 1, out)
             ELSE IF ParseCIDR(str).err
             THEN [networks |-> <<>>, err |-> TRUE]
             ELSE parseCIDRsLoop(entries, i + 1, Append(out, ParseCIDR(str).net))

\* ParseTrustedProxyCIDRs(csv): the networks and the error
ParseTrustedProxyCIDRs(csv) ==
    IF TrimSpace(csv) = <<>>
    THEN [networks |-> <<>>, err |-> FALSE]
    ELSE parseCIDRsLoop(Split(TrimSpace(csv)), 1, <<>>)

\* isTrustedProxy(remoteIP, networks)
isTrustedProxy(remoteIP, networks) ==
    IF Len(networks) = 0 THEN FALSE
    ELSE IF remoteIP \notin DOMAIN IPWords THEN FALSE
    ELSE \E i \in 1..Len(networks) : Contains(networks[i], IPWords[remoteIP])

\* the handler of RealIPWith(trustedNetworks): the value it stores under
\* RealIPKey for request r
RealIPWith(trustedNetworks, r) ==
    LET remoteIP == SplitHostPort(r.RemoteAddr)
        ip == IF isTrustedProxy(remoteIP, trustedNetworks)
              THEN IF r.XRealIP # <<>>
                   THEN TrimSpace(r.XRealIP)
                   ELSE IF r.XForwardedFor # <<>>
                   THEN TrimSpace(Split(r.XForwardedFor)[1])
                   ELSE <<>>
              ELSE <<>>
    IN  IF ip = <<>> THEN Str(remoteIP) ELSE ip

\* values of TRUSTED_PROXY_CIDRS
ProxyCIDRLists ==
    { <<>>,
      <<" ", " ">>,
      <<"127.0.0.0/8">>,
      <<"127.0.0.0/8", ",", "10.0.0.0/8">>,
      <<" ", "127.0.0.0/8", " ", ",", " ", "10.0.0.0/8", " ">>,
      <<"10.1.2.3/8", ",", ",", "192.168.1.0/24", ",">>,
      <<"10.128.0.0/9">>,
      <<"not-a-cidr">>,
      <<"127.0.0.0/8", ",", "invalid">>,
      <<"invalid", ",", "127.0.0.0/8", ",", "10.0.0.0/8">>,
      <<"10.0.0.0/8", ",", "127.0.0.1">>,
      <<"127.0.0.0/8", " ", "10.0.0.0/8">> }

\* requests: a remote address, and the values of the headers X-Real-IP and
\* X-Forwarded-For (empty when the header is absent)
Requests ==
    { [RemoteAddr |-> a, XRealIP |-> x, XForwardedFor |-> f] :
        a \in DOMAIN RemoteAddrs,
        x \in { <<>>, <<"198.51.100.7">>, <<" ", "198.51.100.7", " ">>, <<" ">> },
        f \in { <<>>, <<"198.51.100.8">>,
                <<" ", "198.51.100.8", ",", " ", "10.1.2.3">>,
                <<",", "198.51.100.8">> } }

\* server.New: the list is parsed; at an error the networks are nil; the
\* handler chain is built with RealIPWith(trustedProxyNetworks)
ServerNew(csv) ==
    /\ ~started
    /\ started' = TRUE
    /\ trustedProxyCIDRs' = csv
    /\ parsed' = ParseTrustedProxyCIDRs(csv)
    /\ trustedProxyNetworks' =
          IF ParseTrustedProxyCIDRs(csv).err
          THEN <<>>
          ELSE ParseTrustedProxyCIDRs(csv).networks
    /\ UNCHANGED <<request, realIP, dbVars, searchVars, enumVars, callVars, taskVars>>

\* a request passes the middleware
ServeHTTP(r) ==
    /\ started
    /\ request' = r
    /\ realIP' = RealIPWith(trustedProxyNetworks, r)
    /\ UNCHANGED <<started, trustedProxyCIDRs, parsed, trustedProxyNetworks,
                   dbVars, searchVars, enumVars, callVars, taskVars>>

InitServer ==
    InitDB /\ InitSearch /\ InitTasks /\ InitHTTP /\ InitEnum /\ InitCall

NextServer ==
    \/ \E csv \in ProxyCIDRLists : ServerNew(csv)
    \/ \E r \in Requests : ServeHTTP(r)

SpecServer == InitServer /\ [][NextServer]_vars

---------------------------------------------------------------------------
\* What the claims speak of

\* the stops of all groups together
GroupStops(gs) == UNION { { gs[g][i] : i \in 1..Len(gs[g]) } : g \in 1..Len(gs) }

RECURSIVE SumLen(_, _)
SumLen(gs, g) == IF g = 0 THEN 0 ELSE Len(gs[g]) + SumLen(gs, g - 1)

\* the places of stop s in ordering o
Places(o, s) == { p \in 1..Len(o) : o[p] = s }

\* o is an order-preserving merge of the groups gs (of pairwise distinct
\* stops): every stop of every group once, nothing else, and two stops of
\* one group in the order they have in the group
IsMerge(o, gs) ==
    /\ Len(o) = SumLen(gs, Len(gs))
    /\ \A s \in GroupStops(gs) : Cardinality(Places(o, s)) = 1
    /\ \A g \in 1..Len(gs) : \A i, j \in 1..Len(gs[g]) :
         i < j => \A p \in Places(o, gs[g][i]) : \A q \in Places(o, gs[g][j]) : p < q

\* all order-preserving merges of the groups: a merge starts with the head
\* of some group and goes on with a merge of what is left
RECURSIVE Merges(_)
Merges(gs) ==
    IF \A g \in 1..Len(gs) : gs[g] = <<>>
    THEN { <<>> }
    ELSE UNION { { <<Head(gs[g])>> \o m : m \in Merges([gs EXCEPT ![g] = Tail(@)]) } :
                 g \in { h \in 1..Len(gs) : gs[h] # <<>> } }

RECURSIVE Factorial(_)
Factorial(n) == IF n <= 1 THEN 1 ELSE n * Factorial(n - 1)

RECURSIVE FactorialProduct(_, _)
FactorialProduct(gs, g) ==
    IF g = 0 THEN 1 ELSE Factorial(Len(gs[g])) * FactorialProduct(gs, g - 1)

\* the number of order-preserving merges: the multinomial coefficient of
\* the group sizes
Multinomial(gs) == Factorial(SumLen(gs, Len(gs))) \div FactorialProduct(gs, Len(gs))

\* the orderings of a sequence of orderings, as a set
Range(seq) == { seq[i] : i \in 1..Len(seq) }

\* the least element of a non-empty set of numbers
Least(S) == CHOOSE m \in S : \A d \in S : m <= d

\* the step-by-step activation and the function agree on the result
EnumAgrees ==
    pc = "done" => result = allInterleavings(groups, max)

\* C4: allInterleavings(groups, cap) never returns more than cap orderings,
\* whatever the groups (none, one, several) and the cap.
C4_AtMostCap ==
    pc = "done" => Len(result) <= max

\* C5: every ordering returned by allInterleavings is an order-preserving
\* merge of the groups: each stop of each group exactly once, its length
\* the total number of stops, each group's order kept.
C5_OrderingsAreMerges ==
    pc = "done" => \A i \in 1..Len(result) : IsMerge(result[i], groups)

C5_Witness ==
    /\ pc = "done"
    /\ Len(groups) = 3
    /\ \E g \in 1..Len(groups) : Len(groups[g]) = 2
    /\ Len(result) >= 5

\* C8: for two or more groups, allInterleavings returns every
\* order-preserving merge exactly once when their number (the multinomial
\* coefficient of the group sizes) is at most max, and exactly max
\* orderings when it exceeds max.
C8_AllMergesUpToMax ==
    (pc = "done" /\ Len(groups) >= 2) =>
        IF Multinomial(groups) <= max
        THEN /\ Len(result) = Multinomial(groups)
             /\ \A i, j \in 1..Len(result) : result[i] = result[j] => i = j
             /\ Range(result) = Merges(groups)
             /\ \A o \in Range(result) : IsMerge(o, groups)
        ELSE Len(result) = max

C8_Witness ==
    /\ pc = "done"
    /\ Len(groups) = 2
    /\ Multinomial(groups) = 6
    /\ max = 6
    /\ Len(result) = 6

C8_WitnessCapped ==
    /\ pc = "done"
    /\ Len(groups) = 3
    /\ Multinomial(groups) > max
    /\ max > 0
    /\ Len(result) = max

\* C9: allInterleavings returns no ordering for no groups, and exactly one
\* ordering, the group itself, for exactly one group.
C9_NoneAndSingle ==
    pc = "done" =>
        /\ Len(groups) = 0 => result = <<>>
        /\ Len(groups) = 1 => result = <<groups[1]>>

C9_Witness ==
    /\ pc = "done"
    /\ Len(groups) = 1
    /\ Len(groups[1]) = 2
    /\ Len(result) = 1

\* the endpoint deviation of the call under way
EndpointDeviation ==
    Haversine(search.StartLat, search.StartLng, route.StartLat, route.StartLng)
    + Haversine(search.EndLat, search.EndLng, route.EndLat, route.EndLng)

\* deviationForStops of the call's route and search on an ordering
OrderingDeviation(o) ==
    deviationForStops(route.StartLat, route.StartLng, route.EndLat, route.EndLng, o, search)

\* the contributor groups of the call's route, and the orderings that
\* allInterleavings returns for them under cap 500
Groups == groupStopsByParticipant(route.Stops)
Enumerated == allInterleavings(Groups, 500)

\* C6: CalculateDeviation(route, search) is the endpoint deviation plus the
\* stop deviation: the minimum of deviationForStops over the orderings that
\* allInterleavings returns under cap 500, or, when it returns none (the
\* route has no stops), deviationForStops on the empty stop list.
C6_EndpointPlusBestEnumerated ==
    called = "CalculateDeviation" =>
        /\ Len(Enumerated) = 0 <=> Len(route.Stops) = 0
        /\ ret = EndpointDeviation
                 + (IF Len(Enumerated) = 0
                    THEN OrderingDeviation(<<>>)
                    ELSE Least({ OrderingDeviation(o) : o \in Range(Enumerated) }))

C6_Witness ==
    /\ called = "CalculateDeviation"
    /\ Len(Enumerated) = 500
    /\ EndpointDeviation > 0
    /\ ret > EndpointDeviation
    /\ \E o \in Range(Enumerated) : ret < EndpointDeviation + OrderingDeviation(o)

C6_WitnessNoStops ==
    /\ called = "CalculateDeviation"
    /\ Len(Enumerated) = 0
    /\ ret > EndpointDeviation

C10_GroupsPartitionStops ==
    called = "groupStopsByParticipant" =>
        LET stops == route.Stops
            gs    == ret
        IN  /\ Len(stops) = 0 => Len(gs) = 0
            /\ \A i \in 1..Len(stops) :
                 Cardinality({ gj \in { <<g, j>> : g \in 1..Len(gs), j \in 1..Len(stops) } :
                                 /\ gj[2] <= Len(gs[gj[1]])
                                 /\ gs[gj[1]][gj[2]] = stops[i] }) = 1
            /\ \A g \in 1..Len(gs) : Len(gs[g]) > 0
            /\ \A g \in 1..Len(gs) : \A i, j \in 1..Len(gs[g]) :
                 gs[g][i].ApplicationID = gs[g][j].ApplicationID
            /\ \A g, h \in 1..Len(gs) :
                 g # h => gs[g][1].ApplicationID # gs[h][1].ApplicationID
            /\ SumLen(gs, Len(gs)) = Len(stops)

C10_Witness ==
    /\ called = "groupStopsByParticipant"
    /\ Len(route.Stops) = 3
    /\ route.Stops[1].ApplicationID = route.Stops[3].ApplicationID
    /\ route.Stops[1].ApplicationID # route.Stops[2].ApplicationID
    /\ Len(ret) = 2
    /\ Len(ret[1]) = 2

\* a call of Search has returned routes (no error)
SearchReturned == searchIn # NoSearch /\ ~searchErr

\* the deviation score of a returned route
Score(i) == CalculateDeviation(searchOut[i], searchIn)

\* C1: Search never returns a route whose deviation score
\* (CalculateDeviation of the route and the search input) exceeds the
\* route's MaxDeviation.
C1_WithinThreshold ==
    SearchReturned => \A i \in 1..Len(searchOut) : Score(i) <= searchOut[i].MaxDeviation

C1_Witness ==
    /\ SearchReturned
    /\ Len(searchOut) >= 1
    /\ \E i \in 1..Len(routes) :
         /\ searchableWhere(routes[i])
         /\ CalculateDeviation(scanRoute(routes[i]), searchIn) > routes[i].max_deviation

\* C2: the routes returned by Search are in ascending order of deviation
\* score: of two adjacent routes the earlier scores no more than the later.
C2_SortedByScore ==
    SearchReturned =>
        \A i \in 1..(Len(searchOut) - 1) : LessEq(Score(i), Score(i + 1))

\* C3: Search returns no full route: every returned route has available
\* capacity above 0, its max passengers being more than its live
\* participants.
C3_NoFullRoute ==
    SearchReturned =>
        \A i \in 1..Len(searchOut) :
            /\ searchOut[i].AvailablePassengers > 0
            /\ searchOut[i].MaxPassengers > participants[searchOut[i].ID]
            /\ searchOut[i].AvailablePassengers
                 = searchOut[i].MaxPassengers - participants[searchOut[i].ID]

C3_Witness ==
    /\ SearchReturned
    /\ Len(searchOut) >= 1
    /\ \E i \in 1..Len(routes) :
         /\ routes[i].max_passengers = participants[i]
         /\ CalculateDeviation(scanRoute(routes[i]), searchIn) <= routes[i].max_deviation

---------------------------------------------------------------------------
\* the place of stop s in the stop list (stops are pairwise distinct)
PlaceIn(stops, s) == CHOOSE p \in 1..Len(stops) : stops[p] = s

\* the place at which a contributor is first seen in the stop list
FirstSeen(stops, app) ==
    Least({ p \in 1..Len(stops) : stops[p].ApplicationID = app })

\* C11: groupStopsByParticipant preserves order: within each returned group
\* the stops are in the relative order they have in the input, and the
\* groups come in the order in which their contributor is first seen in the
\* input.
C11_GroupsKeepOrder ==
    called = "groupStopsByParticipant" =>
        LET stops == route.Stops
            gs    == ret
        IN  /\ \A g \in 1..Len(gs) : \A i, j \in 1..Len(gs[g]) :
                 i < j => PlaceIn(stops, gs[g][i]) < PlaceIn(stops, gs[g][j])
            /\ \A g, h \in 1..Len(gs) :
                 g < h => FirstSeen(stops, gs[g][1].ApplicationID)
                            < FirstSeen(stops, gs[h][1].ApplicationID)

\* an application's stops surround a stop of the creator: the application's
\* group comes first and holds its two stops in input order
C11_Witness ==
    /\ called = "groupStopsByParticipant"
    /\ Len(route.Stops) = 3
    /\ route.Stops[1].ApplicationID # NilApplication
    /\ route.Stops[3].ApplicationID = route.Stops[1].ApplicationID
    /\ route.Stops[2].ApplicationID = NilApplication
    /\ ret = << <<route.Stops[1], route.Stops[3]>>, <<route.Stops[2]>> >>

---------------------------------------------------------------------------
\* C12: CalculateDeviation returns exactly 0 when the route's start is the
\* search start, the route's end is the search end, the route has no stops
\* and the search has no via-points.
C12_ZeroOnExactMatch ==
    ( /\ called = "CalculateDeviation"
      /\ route.StartLat = search.StartLat /\ route.StartLng = search.StartLng
      /\ route.EndLat = search.EndLat /\ route.EndLng = search.EndLng
      /\ Len(route.Stops) = 0
      /\ Len(search.Stops) = 0 )
    => ret = 0

C12_Witness ==
    /\ called = "CalculateDeviation"
    /\ route.StartLat = search.StartLat /\ route.StartLng = search.StartLng
    /\ route.EndLat = search.EndLat /\ route.EndLng = search.EndLng
    /\ route.StartLat # route.EndLat
    /\ route.Stops = <<>>
    /\ search.Stops = <<>>
    /\ ret = 0

---------------------------------------------------------------------------
\* the points of the call's route in travel order: start, stop1, ..., stopn,
\* end
RoutePoints ==
    <<  <<route.StartLat, route.StartLng>> >>
    \o [i \in 1..Len(route.Stops) |-> <<route.Stops[i].Lat, route.Stops[i].Lng>>]
    \o << <<route.EndLat, route.EndLng>> >>

\* m is the midpoint of a and b
IsMidpoint(m, a, b) == 2 * m[1] = a[1] + b[1] /\ 2 * m[2] = a[2] + b[2]

\* C13: buildSegmentsFromStops returns one representative point per leg:
\* for no stops the single midpoint of start and end, for n >= 1 stops
\* exactly n + 1 points, the i-th being the midpoint of the i-th consecutive
\* pair of start, stop1, ..., stopn, end.
C13_OneMidpointPerLeg ==
    called = "buildSegmentsFromStops" =>
        /\ Len(ret) = Len(route.Stops) + 1
        /\ \A i \in 1..Len(ret) : IsMidpoint(ret[i], RoutePoints[i], RoutePoints[i + 1])

C13_Witness ==
    /\ called = "buildSegmentsFromStops"
    /\ Len(route.Stops) = 2
    /\ route.Stops[1].Lat # route.Stops[2].Lat
    /\ Len(ret) = 3
    /\ ret[1] # ret[2] /\ ret[2] # ret[3] /\ ret[1] # ret[3]

C13_WitnessNoStops ==
    /\ called = "buildSegmentsFromStops"
    /\ route.Stops = <<>>
    /\ ret = << <<4, Meridian>> >>

\* the leg midpoints of the call's route
LegMidpoints ==
    { <<(RoutePoints[i][1] + RoutePoints[i + 1][1]) \div 2,
        (RoutePoints[i][2] + RoutePoints[i + 1][2]) \div 2>> :
        i \in 1..(Len(route.Stops) + 1) }

\* the least distance from a via-point to a leg midpoint
NearestMidpoint(us) ==
    Least({ Haversine(us.Lat, us.Lng, m[1], m[2]) : m \in LegMidpoints })

RECURSIVE SumNearest(_, _)
SumNearest(via, n) ==
    IF n = 0 THEN 0 ELSE NearestMidpoint(via[n]) + SumNearest(via, n - 1)

\* C14: deviationForStops returns the sum, over the search's via-points, of
\* the minimum distance from the via-point to a leg midpoint of the given
\* ordering (not to the stops or to the line of a leg); with no via-points
\* the result is 0.
C14_SumOfNearestMidpoints ==
    called = "deviationForStops" =>
        /\ ret = SumNearest(search.Stops, Len(search.Stops))
        /\ Len(search.Stops) = 0 => ret = 0

\* two via-points, each on the line of a leg of the route, and yet a
\* positive deviation: the distances are to the midpoints
C14_Witness ==
    /\ called = "deviationForStops"
    /\ Len(search.Stops) = 2
    /\ search.Stops[1].Lat # search.Stops[2].Lat
    /\ \A i \in 1..2 : route.StartLat < search.Stops[i].Lat
                       /\ search.Stops[i].Lat < route.EndLat
    /\ NearestMidpoint(search.Stops[1]) > 0
    /\ NearestMidpoint(search.Stops[2]) > 0
    /\ ret = NearestMidpoint(search.Stops[1]) + NearestMidpoint(search.Stops[2])

---------------------------------------------------------------------------
C20_HaversineOfSamePoint ==
    ( /\ called = "Haversine"
      /\ search.StartLat = route.StartLat
      /\ search.StartLng = route.StartLng )
    => ret = 0

C20_Witness ==
    /\ called = "Haversine"
    /\ search.StartLat = route.StartLat
    /\ search.StartLng = route.StartLng
    /\ search.StartLat # 0
    /\ search.StartLng # 0
    /\ ret = 0

---------------------------------------------------------------------------
\* inside gen every index is in range: indices[g] is a place of groups[g]
\* or its length, current holds one stop per consumed index and never more
\* than totalLen(groups), the loop variable is a group or one past the
\* last, there are no more activations of gen than stops (plus one), and
\* the undo after a call finds a stop to drop from current and an index to
\* decrement
InRange ==
    pc \in {"gen", "loop", "ret"} =>
        /\ DOMAIN indices = 1..Len(groups)
        /\ \A g \in 1..Len(groups) : indices[g] >= 0 /\ indices[g] <= Len(groups[g])
        /\ Len(current) = SumTo(indices, Len(groups))
        /\ Len(current) <= totalLen(groups)
        /\ Len(stack) <= totalLen(groups) + 1
        /\ \A d \in 1..Len(stack) : stack[d] >= 1 /\ stack[d] <= Len(groups) + 1
        /\ (pc = "ret" /\ Len(stack) > 0) =>
              /\ stack[Len(stack)] <= Len(groups)
              /\ Len(current) >= 1
              /\ indices[stack[Len(stack)]] >= 1

\* C15: the scoring and enumeration functions are total: for every route
\* and search input, groupStopsByParticipant, allInterleavings and
\* CalculateDeviation terminate and return a result, and no step fails (no
\* index out of range).
C15_Total ==
    /\ []InRange
    /\ (pc = "call") ~> (pc = "done")
    /\ (called = "none" /\ pc = "idle") ~> (called = "CalculateDeviation")

\* CalculateDeviation has returned after an enumeration of several
\* orderings of three groups
C15_Witness ==
    /\ called = "CalculateDeviation"
    /\ Len(groups) = 3
    /\ pc = "done"
    /\ Len(result) = 6
    /\ ret > 0

\* C17: scoring treats its inputs as read-only: no step of
\* CalculateDeviation or of the enumeration changes the route (start, end,
\* threshold, stop list) or the search input, and the enumeration, which
\* builds and backtracks candidate orderings, leaves its groups as they
\* were; when the score is returned the route's stops are still the stops
\* the groups were made of.
C17_InputsReadOnly ==
    /\ [][ /\ route' = route
           /\ search' = search
           /\ pc # "idle" => (groups' = groups /\ max' = max) ]_vars
    /\ [](called = "CalculateDeviation" =>
             groups = groupStopsByParticipant(route.Stops))

\* the score has been returned after orderings other than the route's own
\* stop order were built
C17_Witness ==
    /\ called = "CalculateDeviation"
    /\ Len(route.Stops) = 3
    /\ \E i \in 1..Len(result) : result[i] # route.Stops
    /\ \E i \in 1..Len(result) : result[i] = route.Stops
    /\ route.Stops[1].Lat = 6
    /\ current = <<>>

---------------------------------------------------------------------------
\* C16: CalculateDeviation is deterministic: the score returned is a
\* function of the route and the search input, whatever way the call runs,
\* and so is the list of orderings it scores, in content and in order, also
\* when the cap cuts the enumeration (for a direct call of allInterleavings:
\* a function of the groups and the cap).
C16_ScoreIsFunctionOfInputs ==
    /\ (pc = "done" /\ called = "none") =>
          result = allInterleavings(groups, max)
    /\ (pc = "done" /\ called # "none") =>
          result = allInterleavings(groupStopsByParticipant(route.Stops),
                                    maxInterleavings)
    /\ called = "CalculateDeviation" => ret = CalculateDeviation(route, search)

\* a score returned for a route of three contributors
C16_Witness ==
    /\ called = "CalculateDeviation"
    /\ Len(groups) = 3
    /\ Len(result) = Multinomial(groups)
    /\ ret = CalculateDeviation(route, search)

\* an enumeration cut by its cap has returned
C16_WitnessCut ==
    /\ called = "none"
    /\ pc = "done"
    /\ Len(groups) = 3
    /\ max >= 2
    /\ Multinomial(groups) > max
    /\ Len(result) = max
    /\ result = allInterleavings(groups, max)

---------------------------------------------------------------------------
\* what the sequential Search returns for the tasks' candidate routes, taken
\* in task order
SequentialOutcomes ==
    LET candidates == [t \in 1..Cardinality(Tasks) |-> tasks[t].route]
    IN  { [i \in 1..Len(sorted) |-> sorted[i].route] :
            sorted \in sortSlice(searchLoop(candidates, search, 1, <<>>)) }

\* C18: per-candidate scoring can be run as concurrent tasks without
\* coordination: however the steps of the tasks are interleaved, every task
\* scores the orderings, and returns the score, that the sequential call
\* gives for its route, and the filtered, sorted result is a result of the
\* sequential Search.
C18_TasksScoreAsSequential ==
    /\ \A t \in DOMAIN tasks :
          tasks[t].called = "CalculateDeviation" =>
             /\ tasks[t].result =
                   allInterleavings(groupStopsByParticipant(tasks[t].route.Stops),
                                    maxInterleavings)
             /\ tasks[t].ret = CalculateDeviation(tasks[t].route, search)
    /\ (running # 0 /\ called = "CalculateDeviation") =>
          ret = CalculateDeviation(route, search)
    /\ (running = 0 /\ searchIn # NoSearch) => searchOut \in SequentialOutcomes

\* both tasks have enumerated several orderings, the second task returned
\* first, and the result keeps one route and drops the other
C18_Witness ==
    /\ running = 0
    /\ searchIn # NoSearch
    /\ Len(collected) = 2
    /\ collected[1].task = 2
    /\ \A t \in Tasks : Len(tasks[t].result) >= 2
    /\ Len(searchOut) = 1

\* a task is in the middle of its enumeration while the other, suspended,
\* is in the middle of its own
C18_WitnessInterleaved ==
    /\ running = 2
    /\ pc = "loop" /\ Len(current) = 1
    /\ tasks[1].pc = "loop" /\ Len(tasks[1].current) = 1

---------------------------------------------------------------------------
\* C21: CalculateDeviation never returns a negative value, for any route
\* (with or without stops, any number of contributors) and any search
\* input.
C21_NeverNegative ==
    called = "CalculateDeviation" => ret >= 0

\* a positive score of a route with stops of several contributors, for a
\* search whose endpoints are the route's: all of it is stop deviation
C21_Witness ==
    /\ called = "CalculateDeviation"
    /\ Len(groupStopsByParticipant(route.Stops)) >= 2
    /\ EndpointDeviation = 0
    /\ Len(search.Stops) = 2
    /\ ret > 0

---------------------------------------------------------------------------
\* the rows of route_stops that are live and approved
ApprovedRows(r) ==
    { x \in route_stops : x.route_id = r /\ ~x.deleted_at /\ x.status = "approved" }

\* the stop list made of a set of rows, by position
StopsOfRows(rows) ==
    LET ord == ByPosition(rows)
    IN  [i \in 1..Len(ord) |->
            [ID |-> ord[i].id, ApplicationID |-> ord[i].application_id,
             Position |-> ord[i].position, Lat |-> ord[i].lat, Lng |-> ord[i].lng,
             Status |-> ord[i].status]]

\* C22: only stops with approval status "approved" participate in
\* deviation scoring: every stop in the stop list of a route that Search
\* passes to CalculateDeviation is a non-deleted stop with status approved;
\* pending and rejected stops never influence a score (the score is that of
\* the route with its live approved rows alone).
C22_OnlyApprovedStopsScored ==
    \A i \in 1..Len(searchScored) :
        LET r == searchScored[i].route
        IN  /\ \A j \in 1..Len(r.Stops) :
                 /\ r.Stops[j].Status = "approved"
                 /\ \E x \in ApprovedRows(r.ID) : x.id = r.Stops[j].ID
            /\ searchScored[i].dev =
                 CalculateDeviation([r EXCEPT !.Stops = StopsOfRows(ApprovedRows(r.ID))],
                                    searchIn)

\* a route was scored with its two approved stops, the creator's and an
\* application's, while it has a live pending or rejected stop that would
\* have changed the score
C22_Witness ==
    /\ searchIn # NoSearch
    /\ \E i \in 1..Len(searchScored) :
         LET r == searchScored[i].route
         IN  /\ Len(r.Stops) = 2
             /\ r.Stops[2].ApplicationID # NilApplication
             /\ \E x \in StopRowsOf(r.ID) : x.status \in {"pending", "rejected"} /\ ~x.deleted_at
             /\ searchScored[i].dev #
                  CalculateDeviation([r EXCEPT !.Stops = fetchRouteStopsAnyStatus(r.ID)],
                                     searchIn)

---------------------------------------------------------------------------
\* the length of one arc unit (half a degree on a sphere of radius 6371 km),
\* in metres
MetresPerArc == 55597

\* the leg midpoints of the call's route with its stops in ordering o
MidpointsOf(o) ==
    LET pts == <<  <<route.StartLat, route.StartLng>> >>
               \o [i \in 1..Len(o) |-> <<o[i].Lat, o[i].Lng>>]
               \o << <<route.EndLat, route.EndLng>> >>
    IN  { <<(pts[i][1] + pts[i + 1][1]) \div 2, (pts[i][2] + pts[i + 1][2]) \div 2>> :
            i \in 1..(Len(o) + 1) }

\* the orderings CalculateDeviation scores: the enumerated ones, or the
\* route's (empty) stop list when there are none
ScoredOrderings ==
    IF Len(Enumerated) = 0 THEN { route.Stops } ELSE Range(Enumerated)

\* C23: for a route from (0,0) to (3,3) with two stops (1,1) then (2,2)
\* from the same contributor, and a search with the same start and end and
\* one via-point (1.5,1.5), CalculateDeviation is at most 5 km; more
\* generally, when the endpoints match and every via-point coincides with a
\* leg midpoint of one enumerated ordering, the score is 0.
C23_ViaPointOnMidpoint ==
    called = "CalculateDeviation" =>
        /\ (route = ScenarioRoute /\ search = ScenarioSearch) =>
              ret * MetresPerArc <= 5000
        /\ ( /\ route.StartLat = search.StartLat /\ route.StartLng = search.StartLng
              /\ route.EndLat = search.EndLat /\ route.EndLng = search.EndLng
              /\ \E o \in ScoredOrderings :
                    \A i \in 1..Len(search.Stops) :
                        <<search.Stops[i].Lat, search.Stops[i].Lng>> \in MidpointsOf(o) )
           => ret = 0

\* the scenario has been scored
C23_Witness ==
    /\ called = "CalculateDeviation"
    /\ route = ScenarioRoute
    /\ search = ScenarioSearch
    /\ ret = 0

\* two via-points on two midpoints of an ordering that is not the stored
\* order of the stops
C23_WitnessOtherOrdering ==
    /\ called = "CalculateDeviation"
    /\ EndpointDeviation = 0
    /\ Len(search.Stops) = 2
    /\ search.Stops[1] # search.Stops[2]
    /\ \E o \in ScoredOrderings :
          /\ o # route.Stops
          /\ \A i \in 1..2 : <<search.Stops[i].Lat, search.Stops[i].Lng>> \in MidpointsOf(o)
    /\ \E i \in 1..2 : <<search.Stops[i].Lat, search.Stops[i].Lng>> \notin MidpointsOf(route.Stops)
    /\ ret = 0

---------------------------------------------------------------------------
\* the networks as an administrator reads them: which addresses lie in
\* which
LiesIn ==
    { <<"127.0.0.1", "127.0.0.0/8">>,
      <<"10.1.2.3", "10.0.0.0/8">>, <<"10.200.0.1", "10.0.0.0/8">>,
      <<"10.1.2.3", "10.1.2.3/8">>, <<"10.200.0.1", "10.1.2.3/8">>,
      <<"10.200.0.1", "10.128.0.0/9">> }

\* the words of a list
WordsOf(csv) == { csv[i] : i \in { j \in 1..Len(csv) : csv[j] \notin {" ", ","} } }

\* the list has an entry that is not a network: a word that is no CIDR, or
\* two words with no comma between them
HasInvalidEntry(csv) ==
    \/ \E w \in WordsOf(csv) : w \notin DOMAIN CIDRWords
    \/ \E i, j \in 1..Len(csv) :
          /\ i < j
          /\ csv[i] \notin {" ", ","} /\ csv[j] \notin {" ", ","}
          /\ \A k \in (i + 1)..(j - 1) : csv[k] = " "

\* the host of the connection of the last request
RemoteHost == RemoteAddrs[request.RemoteAddr]

\* the connection of the last request comes from a network of the
\* configured list, the list being valid
FromTrustedNetwork ==
    /\ ~HasInvalidEntry(trustedProxyCIDRs)
    /\ \E w \in WordsOf(trustedProxyCIDRs) : <<RemoteHost, w>> \in LiesIn

\* C24: RealIPWith takes the real IP from X-Real-IP or X-Forwarded-For only
\* when the connection's remote address lies in one of the trusted
\* networks; otherwise the real IP is the connection remote address.
\* ParseTrustedProxyCIDRs returns an error and no networks if any entry of
\* the list is invalid (and otherwise one network per entry, blank entries
\* not counted), so with an invalid TRUSTED_PROXY_CIDRS list no forwarded
\* header is ever honoured.
C24_ForwardedOnlyFromTrusted ==
    /\ started =>
          IF HasInvalidEntry(trustedProxyCIDRs)
          THEN parsed.err /\ parsed.networks = <<>> /\ trustedProxyNetworks = <<>>
          ELSE /\ ~parsed.err
               /\ Len(parsed.networks) = Cardinality(WordsOf(trustedProxyCIDRs))
               /\ trustedProxyNetworks = parsed.networks
    /\ request # NoRequest =>
          /\ ~FromTrustedNetwork => realIP = <<RemoteHost>>
          /\ realIP # <<RemoteHost>> =>
                /\ FromTrustedNetwork
                /\ \/ realIP = <<"198.51.100.7">> /\ "198.51.100.7" \in WordsOf(request.XRealIP)
                   \/ /\ realIP = <<"198.51.100.8">>
                      /\ "198.51.100.8" \in WordsOf(request.XForwardedFor)
                      /\ request.XRealIP = <<>>
          /\ ( /\ FromTrustedNetwork
                /\ WordsOf(request.XRealIP) # {} ) => realIP = <<"198.51.100.7">>

\* a request from a trusted proxy whose X-Real-IP, spaces trimmed, became
\* the real IP, the list having blank entries and a network that is not
\* written in canonical form
C24_Witness ==
    /\ request.RemoteAddr = "10.200.0.1:8080"
    /\ trustedProxyCIDRs = <<"10.1.2.3/8", ",", ",", "192.168.1.0/24", ",">>
    /\ Len(trustedProxyNetworks) = 2
    /\ request.XRealIP = <<" ", "198.51.100.7", " ">>
    /\ realIP = <<"198.51.100.7">>

\* a request from 127.0.0.1 with both headers, under a list that names
\* 127.0.0.0/8 and has an invalid entry: the real IP is the remote address
C24_WitnessInvalidList ==
    /\ request.RemoteAddr = "127.0.0.1:40000"
    /\ trustedProxyCIDRs = <<"127.0.0.0/8", ",", "invalid">>
    /\ parsed.err
    /\ request.XRealIP # <<>> /\ request.XForwardedFor # <<>>
    /\ realIP = <<"127.0.0.1">>

---------------------------------------------------------------------------
\* the index of the group that holds stop s
GroupOf(gs, s) == CHOOSE g \in 1..Len(gs) : \E i \in 1..Len(gs[g]) : gs[g][i] = s

\* the sequence of group indices chosen at each position of ordering o
ChoicesOf(gs, o) == [p \in 1..Len(o) |-> GroupOf(gs, o[p])]

\* lexicographic order of two sequences of one length
LexLess(a, b) ==
    \E p \in 1..Len(a) : a[p] < b[p] /\ \A q \in 1..(p - 1) : a[q] = b[q]

\* the number of order-preserving merges of groups with cnt[g] stops left
MergesLeft(cnt) ==
    LET n == Len(cnt)
        fp[g \in 0..n] == IF g = 0 THEN 1 ELSE Factorial(cnt[g]) * fp[g - 1]
    IN  Factorial(SumTo(cnt, n)) \div fp[n]

\* the stops of each group not yet placed before position p of a sequence
\* c of group indices
LeftBefore(gs, c, p) ==
    [g \in 1..Len(gs) |-> Len(gs[g]) - Cardinality({ q \in 1..(p - 1) : c[q] = g })]

\* the number of merges that come before the one with choices c in
\* lexicographic order: those that agree with c before some position p and
\* choose there a lower group h that still has a stop left
RECURSIVE RankFrom(_, _, _)
RankFrom(gs, c, p) ==
    IF p > Len(c) THEN 0
    ELSE LET left == LeftBefore(gs, c, p)
             lower == { h \in 1..(c[p] - 1) : left[h] > 0 }
             before[h \in 0..Len(gs)] ==
                 IF h = 0 THEN 0
                 ELSE before[h - 1]
                      + (IF h \in lower
                         THEN MergesLeft([left EXCEPT ![h] = @ - 1])
                         ELSE 0)
         IN  before[Len(gs)] + RankFrom(gs, c, p + 1)

Rank(gs, o) == RankFrom(gs, ChoicesOf(gs, o), 1)

\* the groups one after the other
RECURSIVE Concatenation(_, _)
Concatenation(gs, g) == IF g = 0 THEN <<>> ELSE Concatenation(gs, g - 1) \o gs[g]

\* C25: with two or more groups, allInterleavings emits orderings in
\* lexicographic order of the sequence of group indices chosen at each
\* position (lowest group index tried first), so the first ordering is the
\* concatenation of the groups in input order, and for every cap the capped
\* result is exactly the first cap orderings (a prefix) of the uncapped
\* enumeration: the i-th ordering returned is the i-th order-preserving
\* merge in that order.
C25_CappedIsPrefixInFixedOrder ==
    (pc = "done" /\ Len(groups) >= 2) =>
        /\ Len(result) = IF max < Multinomial(groups) THEN max ELSE Multinomial(groups)
        /\ \A i \in 1..Len(result) :
              /\ IsMerge(result[i], groups)
              /\ Rank(groups, result[i]) = i - 1
        /\ \A i \in 1..(Len(result) - 1) :
              LexLess(ChoicesOf(groups, result[i]), ChoicesOf(groups, result[i + 1]))
        /\ Len(result) >= 1 => result[1] = Concatenation(groups, Len(groups))

\* three groups, a cap that cuts the enumeration after several orderings
C25_Witness ==
    /\ pc = "done"
    /\ Len(groups) = 3
    /\ \A g \in 1..3 : Len(groups[g]) >= 1
    /\ max >= 4
    /\ Multinomial(groups) > max
    /\ Len(result) = max
    /\ result[1] = Concatenation(groups, 3)
    /\ result[max] # result[1]

\* the candidates of the last Search whose score is within their threshold
ScoredWithin ==
    { i \in 1..Len(searchScored) :
        LessEq(searchScored[i].dev, searchScored[i].route.MaxDeviation) }

\* C26: Search is complete with respect to the threshold: every candidate
\* whose score is less than or equal to its MaxDeviation is in the result
\* exactly once, every route of the result is a candidate, and the result
\* has as many routes as there are candidates with score <= threshold.
C26_CompleteForThreshold ==
    (searchIn # NoSearch /\ ~searchErr) =>
        /\ \A i \in ScoredWithin :
              Cardinality({ j \in 1..Len(searchOut) :
                              searchOut[j] = searchScored[i].route }) = 1
        /\ \A j \in 1..Len(searchOut) :
              \E i \in 1..Len(searchScored) : searchOut[j] = searchScored[i].route
        /\ Len(searchOut) = Cardinality(ScoredWithin)

\* the calls of gen that have not returned, outermost first, each given by
\* the group whose stop its caller appended: the loop variables on the
\* stack, but for that of the activation which is between two calls
PendingCalls ==
    IF pc = "loop" THEN SubSeq(stack, 1, Len(stack) - 1) ELSE stack

\* how many of the first k pending calls were made for group g
CallsFor(g, k) == Cardinality({ j \in 1..k : PendingCalls[j] = g })

\* the stops of group g in the partial ordering, in its order
CurrentOf(g) ==
    SelectSeq(current, LAMBDA s : \E i \in 1..Len(groups[g]) : groups[g][i] = s)

\* C27: the backtracking invariant of allInterleavings.  At every entry to
\* gen, and at every other point of gen, each cursor is between 0 and its
\* group's length, the partial ordering is as long as the sum of the
\* cursors and holds, of each group g, the first indices[g] stops in
\* order.  Cursors and partial ordering are what the pending calls made
\* them: indices[g] counts the pending calls made for g, and the k-th stop
\* of current is the one the k-th pending call was made with.  The pending
\* calls are the same when a call of gen is entered and when it returns,
\* so every call returns with cursors and partial ordering as on entry,
\* also when it returns because the cap is reached; and when the
\* enumeration is over all cursors are 0 and the partial ordering is empty.
C27_BacktrackingInvariant ==
    /\ pc \in {"gen", "loop", "ret"} =>
          /\ \A g \in 1..Len(groups) :
                /\ indices[g] >= 0 /\ indices[g] <= Len(groups[g])
                /\ CurrentOf(g) = SubSeq(groups[g], 1, indices[g])
                /\ indices[g] = CallsFor(g, Len(PendingCalls))
          /\ Len(current) = SumTo(indices, Len(groups))
          /\ current = [k \in 1..Len(PendingCalls) |->
                          groups[PendingCalls[k]][CallsFor(PendingCalls[k], k)]]
    /\ (pc = "done" /\ Len(groups) >= 2) =>
          /\ indices = [g \in 1..Len(groups) |-> 0]
          /\ current = <<>>

\* a call of gen made two calls deep, with stops of two groups still to
\* place, has returned with the cap reached
C27_Witness ==
    /\ pc = "ret"
    /\ Len(stack) = 2
    /\ max >= 1
    /\ Len(result) >= max
    /\ Cardinality({ g \in 1..Len(groups) : indices[g] < Len(groups[g]) }) >= 2

\* the enumeration is over, cut by the cap
C27_WitnessDone ==
    /\ pc = "done"
    /\ Len(groups) = 3
    /\ Len(result) = max
    /\ max >= 2
    /\ Multinomial(groups) > max

\* the search with one more via-point, at latitude v, after the others
WithVia(srch, v) == [srch EXCEPT !.Stops = Append(@, MkVia(v))]

\* the search with its via-points listed in the order f
Reordered(srch, f) == [srch EXCEPT !.Stops = [i \in 1..Len(@) |-> @[f[i]]]]

OpenRows ==
    { i \in 1..Len(routes) :
        ~routes[i].deleted_at /\ routes[i].max_passengers > participants[i] }

\* the failure met the last Search: the query or the end of the rows
\* failed, or the scan or the stops of a row that was selected
FaultMet ==
    \/ searchFault.at \in {"query", "rows"}
    \/ searchFault.at \in {"scan", "stops"} /\ searchFault.row \in OpenRows

\* C29: if fetching the candidate routes or the stops of any candidate
\* fails, Search returns the error and no routes at all, never a partial
\* list, and it has scored no candidate; when it has scored one, every open
\* route had been fetched with its stops, and each was scored.
C29_FailedFetchGivesNoRoutes ==
    searchIn # NoSearch =>
        /\ FaultMet => searchErr /\ searchOut = <<>> /\ searchScored = <<>>
        /\ searchErr => FaultMet /\ searchOut = <<>>
        /\ ~searchErr =>
              /\ Len(searchScored) = Cardinality(OpenRows)
              /\ \A i \in OpenRows : \E k \in 1..Len(searchScored) :
                    /\ searchScored[k].route.ID = i
                    /\ searchScored[k].route.Stops = fetchRouteStops(i)

\* the stops of the third open route could not be fetched, after two
\* routes within their thresholds had been fetched with theirs
C29_Witness ==
    /\ searchErr
    /\ searchFault = [at |-> "stops", row |-> 3]
    /\ OpenRows = {1, 2, 3}
    /\ \A i \in {1, 2} :
          CalculateDeviation(scanRoute(routes[i]), searchIn) <= routes[i].max_deviation

\* the scan of a row that was not selected would have failed: no error
C29_WitnessFaultNotMet ==
    /\ searchIn # NoSearch
    /\ searchFault.at = "scan"
    /\ ~searchErr
    /\ Len(searchOut) >= 1

\* the leg midpoints of the route under its own stop list
RouteSegments ==
    buildSegmentsFromStops(route.StartLat, route.StartLng,
                           route.EndLat, route.EndLng, route.Stops)

\* the distances, NaN apart, from a via-point to the midpoints of segments
RealDistances(us, segments) ==
    { Haversine(us.Lat, us.Lng, segments[i][1], segments[i][2]) :
        i \in 1..Len(segments) } \ {NaN}

\* C30: buildSegmentsFromStops never returns an empty list, and
\* minDistanceToSegment returns the sentinel math.MaxFloat64 only for an
\* empty list; so every via-point's contribution in deviationForStops is a
\* real distance to some leg midpoint, and the sentinel never enters the
\* result of deviationForStops or of CalculateDeviation.
C30_SentinelNeverInScore ==
    /\ called = "buildSegmentsFromStops" => Len(ret) >= 1
    /\ called = "deviationForStops" =>
          /\ \A i \in 1..Len(search.Stops) :
                /\ minDistanceToSegment(search.Stops[i].Lat, search.Stops[i].Lng,
                                        RouteSegments) # MaxFloat64
                /\ minDistanceToSegment(search.Stops[i].Lat, search.Stops[i].Lng,
                                        RouteSegments)
                     \in RealDistances(search.Stops[i], RouteSegments)
          /\ ret < MaxFloat64
    /\ called = "CalculateDeviation" => ret = NaN \/ ret < MaxFloat64

=============================================================================
